---- MODULE Spec2Model ----
(***************************************************************************)
(* Entity-data merge and form-fill pipeline of the form-filling backend.   *)
(*                                                                         *)
(* The specifications of this module share it:                               *)
(*   Spec       concurrent document uploads into the per-entity            *)
(*              extracted_data record (routers/user_data.py,               *)
(*              data_extraction/extract_contents.py)                       *)
(*   SpecSeed   Spec plus the seeding script's get-or-create of            *)
(*              extracted_data rows (scripts/seed_test_data.py)            *)
(*   SpecMerge  the dictionary merge policies applied to one record        *)
(*              (scripts/migrate_*.py, routers/form_fill.py)               *)
(*   SpecFill   form fill of an HTML template (routers/form_fill.py,       *)
(*              template_processing/html_parser.py)                        *)
(*   SpecEnrich the derivation of age from a date of birth                 *)
(*              (data_extraction/extract_contents.py)                      *)
(*   SpecNormalize  the semantic classification of a form field            *)
(*              (template_processing/html_parser.py)                       *)
(*   SpecTemplates  template uploads deduplicated by content hash          *)
(*              (routers/templates.py)                                     *)
(*   SpecTemplateUpdate  SpecTemplates plus the replacement of a template  *)
(*              (routers/templates.py)                                     *)
(*   SpecEntities   Spec plus creation and deletion of entities            *)
(*              (routers/entities.py, database/models/entity.py)           *)
(*   SpecTasks  the background task that processes an uploaded PDF         *)
(*              (tasks/processing_tasks.py, scripts/reprocess_files.py)    *)
(*   SpecRateLimit  the shared in-memory request rate limiter              *)
(*              (api/v1/middleware/rate_limiter.py)                        *)
(*   SpecAccess  the requests that name an entity, by caller               *)
(*              (routers/entities.py, routers/user_data.py,                *)
(*              routers/form_fill.py)                                      *)
(*   SpecMigrate  the migrations of table extracted_data to one row per    *)
(*              entity (scripts/migrate_consolidate_extracted_data.py,     *)
(*              scripts/migrate_extracted_data_fix.py)                     *)
(***************************************************************************)
EXTENDS Integers, Sequences, FiniteSets, TLC

VARIABLES
    extracted_data,   \* table extracted_data: a set of rows
    files,            \* upload directory: path -> stored content
    proc,             \* per request slot: position and locals of the request
    nreq,             \* number of requests started so far
    overlap,          \* the latest requests of the two slots overlapped in time
    seed,             \* the seeding script's position and locals
    m_rec,            \* SpecMerge: the record being accumulated
    m_prev,           \* SpecMerge: the record before the last merge
    m_new,            \* SpecMerge: the last merged input
    m_op,             \* SpecMerge: the last merge operation
    f_template,       \* SpecFill: the template being filled
    f_result,         \* SpecFill: outcome of the last form_fill call
    e_today,          \* SpecEnrich: datetime.now(), as a date
    e_data,           \* SpecEnrich: the extracted dictionary to enrich
    e_out,            \* SpecEnrich: the enriched dictionary
    e_op,             \* SpecEnrich: "init" or the operation applied
    n_name,           \* SpecNormalize: the field's name attribute
    n_label,          \* SpecNormalize: the field's label text
    n_out,            \* SpecNormalize: the result of _get_semantic_info
    templates,        \* table templates: a set of rows
    t_files,          \* template directory: path -> stored content
    t_result,         \* SpecTemplates: the response of the pending request
    entities,         \* table entities: a set of rows
    en_result,        \* SpecEntities: the last entity request and its answer
    tasks,            \* SpecTasks: per uploaded file, its process_pdf_task request
    storage,          \* RateLimiter._storage: identifier -> list of (age, count)
    lock_storage,     \* RateLimiter._lock_storage: identifier -> time left
    r_log,            \* SpecRateLimit: ages of the admitted calls, per identifier
    r_last,           \* SpecRateLimit: the last limiter call and its answer
    r_lockouts,       \* SpecRateLimit: number of apply_lockout calls so far
    entity_rows,      \* SpecTasks: extracted_text and metadata of each entity
    mg_old,           \* SpecMigrate: table extracted_data before the migration
    mg_rows,          \* SpecMigrate: table extracted_data in the old schema
    mg_new,           \* SpecMigrate: table extracted_data in the new schema
    mg_op,            \* SpecMigrate: "init" or the last migration step
    a_result          \* SpecAccess: the last request on an entity and its answer

uploadVars == <<extracted_data, files, proc, nreq, overlap, seed>>
mergeVars  == <<m_rec, m_prev, m_new, m_op>>
fillVars   == <<f_template, f_result>>
enrichVars == <<e_today, e_data, e_out, e_op>>
normVars == <<n_name, n_label, n_out>>
templateVars == <<templates, t_files, t_result>>
entityVars == <<entities, en_result>>
rateVars == <<storage, lock_storage, r_log, r_last, r_lockouts>>
migVars == <<mg_old, mg_rows, mg_new, mg_op>>
notRate == <<entity_rows, migVars, a_result>>
notTasks == <<rateVars, migVars, a_result>>
notMig == <<rateVars, entity_rows, a_result>>
notAccess == <<rateVars, entity_rows, migVars>>
moreVars == <<rateVars, entity_rows, migVars, a_result>>
extVars == <<enrichVars, normVars, templateVars, entityVars, tasks, moreVars>>
vars == <<extracted_data, files, proc, nreq, overlap, seed,
          m_rec, m_prev, m_new, m_op, f_template, f_result, extVars>>

(***************************************************************************)
(* Values.  A Python dict with string keys is a function whose domain is   *)
(* its key set; None is the value NULL.                                    *)
(***************************************************************************)
NULL == "<None>"
EmptyDict == << >>

\* Python truthiness of a str-or-None value
Truthy(v) == v # "" /\ v # NULL

\* str.strip() on the values of the model: whitespace-only becomes empty
Strip(v) == IF v = " " THEN "" ELSE v

\* str.strip('"'): the literal quoted empty string becomes empty
StripQuotes(v) == IF v = "\"\"" THEN "" ELSE v

\* str.lower() on one character
LowerChar(c) ==
    CASE c = "A" -> "a" [] c = "B" -> "b" [] c = "C" -> "c" [] c = "D" -> "d"
      [] c = "E" -> "e" [] c = "F" -> "f" [] c = "G" -> "g" [] c = "H" -> "h"
      [] c = "I" -> "i" [] c = "J" -> "j" [] c = "K" -> "k" [] c = "L" -> "l"
      [] c = "M" -> "m" [] c = "N" -> "n" [] c = "O" -> "o" [] c = "P" -> "p"
      [] c = "Q" -> "q" [] c = "R" -> "r" [] c = "S" -> "s" [] c = "T" -> "t"
      [] c = "U" -> "u" [] c = "V" -> "v" [] c = "W" -> "w" [] c = "X" -> "x"
      [] c = "Y" -> "y" [] c = "Z" -> "z" [] OTHER -> c

RECURSIVE LowerFrom(_, _)
LowerFrom(v, i) ==
    IF i > Len(v) THEN "" ELSE LowerChar(SubSeq(v, i, i)) \o LowerFrom(v, i + 1)

\* str.lower()
Lower(v) == LowerFrom(v, 1)

\* lit in text
Contains(text, lit) ==
    \E i \in 1..(Len(text) - Len(lit) + 1) : SubSeq(text, i, i + Len(lit) - 1) = lit

RECURSIVE SetToSeq(_)
SetToSeq(S) ==
    IF S = {} THEN << >>
    ELSE LET x == CHOOSE y \in S : TRUE IN <<x>> \o SetToSeq(S \ {x})

\* all dicts with keys among K and values among V
Dicts(K, V) == UNION {[D -> V] : D \in SUBSET K}

(***************************************************************************)
(* Merge policies.                                                         *)
(***************************************************************************)

\* a latest-wins-on-everything slip of deep_merge
deep_merge_first_wins(existing, new) ==
    [k \in DOMAIN existing \cup DOMAIN new |->
        IF k \in DOMAIN existing THEN existing[k] ELSE new[k]]

\* scripts/migrate_consolidate_extracted_data.py deep_merge
deep_merge(existing, new) ==
    [k \in DOMAIN existing \cup DOMAIN new |->
        IF k \in DOMAIN new
        THEN IF Truthy(new[k]) /\ new[k] \notin {"", "N/A", "\"\"", NULL}
             THEN new[k]
             ELSE IF k \notin DOMAIN existing THEN new[k] ELSE existing[k]
        ELSE existing[k]]

\* scripts/migrate_extracted_data_fix.py: current_data.update(new_data)
dict_update(current, new) ==
    [k \in DOMAIN current \cup DOMAIN new |->
        IF k \in DOMAIN new THEN new[k] ELSE current[k]]

\* routers/form_fill.py parse_toon_data: lines is a sequence of <<key, value>>
\* pairs, one per "key: value" line of the stored string
RECURSIVE parse_toon_data_from(_, _)
parse_toon_data_from(data, lines) ==
    IF lines = << >> THEN data
    ELSE LET key   == Head(lines)[1]
             value == StripQuotes(Strip(Head(lines)[2]))
             next  == IF Truthy(value) /\ value \notin {"", "N/A", "\"\""}
                         /\ (key \notin DOMAIN data \/ ~Truthy(data[key]))
                      THEN [k \in DOMAIN data \cup {key} |->
                               IF k = key THEN value ELSE data[k]]
                      ELSE data
         IN parse_toon_data_from(next, Tail(lines))

parse_toon_data(lines) == parse_toon_data_from(EmptyDict, lines)

\* a value that stands for "no data" (merge step 4 of the design)
IsAbsent(v) == Strip(v) = "" \/ v \in {"N/A", "\"\"", NULL}

\* ExtractedDataRepository.upsert_or_merge, field merge (merge step 4):
\* absent values never create or overwrite, the first value of a key wins,
\* an absent legacy value is replaced
merge_fields(existing, new) ==
    LET keep == {k \in DOMAIN existing : TRUE}
        add  == {k \in DOMAIN new : ~IsAbsent(new[k])}
    IN [k \in keep \cup add |->
           IF k \in DOMAIN existing /\ ~IsAbsent(existing[k]) THEN existing[k]
           ELSE IF k \in add THEN new[k]
           ELSE existing[k]]

(***************************************************************************)
(* SpecMerge: the merge policies applied repeatedly to one record.         *)
(***************************************************************************)
MergeKeys == {"name", "phone"}
MergeVals == {"A", "B", "", " ", "N/A", "\"\"", NULL}
MaxLines == 2

MergeInputs == Dicts(MergeKeys, MergeVals)
\* the text of a stored string has no None: it reads as the word null
ToonLines == UNION {[1..n -> MergeKeys \X ((MergeVals \ {NULL}) \cup {"null"})] : n \in 0..MaxLines}

EnrichIdle ==
    /\ e_today = [year |-> 2025, month |-> 1, day |-> 1]
    /\ e_data = EmptyDict
    /\ e_out = EmptyDict
    /\ e_op = "init"

\* no result of _get_semantic_info yet
NoInfo == [semantic_type |-> "", likely_keys |-> << >>]

NormIdle ==
    /\ n_name = ""
    /\ n_label = ""
    /\ n_out = NoInfo

\* no template request pending
NoResponse == [op |-> "none", user |-> 0, filename |-> "", content |-> "",
               status |-> "none", template |-> 0]

TemplatesIdle ==
    /\ templates = {}
    /\ t_files = EmptyDict
    /\ t_result = NoResponse

\* a row of table entities
Entity(id, user_id, name) == [id |-> id, user_id |-> user_id, name |-> name]

\* the entities the uploads of the model name exist, and no entity request
\* has been made
EntitiesIdle ==
    /\ entities = {Entity(1, 1, "n"), Entity(2, 1, "n")}
    /\ en_result = [op |-> "none", entity_id |-> 0, status |-> "none"]

\* ids of the rows of table file_uploads
FileIds == {1, 2}

\* upload_file has stored the file as uploaded with a pending processing job;
\* no process_pdf_task request for the file
NoTask == [state |-> "none", entity_id |-> 0, retries |-> 0, extractions |-> 0,
           job |-> "PENDING", result |-> "none", file_status |-> "uploaded"]

TasksIdle == tasks = [f \in FileIds |-> NoTask]

\* the identifier get_client_identifier gives the client of the model; every
\* method of the limiter reads and writes the entries of its identifier only
Identifiers == {"ip:a"}

\* no limiter call yet
NoCall == [op |-> "none", identifier |-> "", max_requests |-> 0,
           window_seconds |-> 0, limited |-> FALSE, reason |-> NULL,
           unlocked |-> FALSE]

\* RateLimiter.__init__: nothing stored, nobody locked out
RateIdle ==
    /\ storage = [i \in Identifiers |-> << >>]
    /\ lock_storage = << >>
    /\ r_log = [i \in Identifiers |-> << >>]
    /\ r_last = NoCall
    /\ r_lockouts = 0

\* no document has been processed for any entity
EntityRowsIdle ==
    entity_rows = [e \in {1, 2} |-> [extracted_text |-> NULL, metadata |-> NULL]]

\* no table to migrate
MigrateIdle ==
    /\ mg_old = {}
    /\ mg_rows = {}
    /\ mg_new = {}
    /\ mg_op = "init"

\* no request on an entity yet
NoAccess == [op |-> "none", caller |-> 0, entity_id |-> 0, owner |-> 0,
             status |-> "none"]

AccessIdle == a_result = NoAccess

MoreIdle == RateIdle /\ EntityRowsIdle /\ MigrateIdle /\ AccessIdle

ExtIdle == EnrichIdle /\ NormIdle /\ TemplatesIdle /\ EntitiesIdle /\ TasksIdle /\ MoreIdle

MergeInit ==
    /\ m_rec = EmptyDict
    /\ m_prev = EmptyDict
    /\ m_new = EmptyDict
    /\ m_op = "init"

DeepMergeStep ==
    \E new \in MergeInputs :
        /\ m_prev' = m_rec
        /\ m_new' = new
        /\ m_rec' = deep_merge(m_rec, new)
        /\ m_op' = "deep_merge"
        /\ UNCHANGED <<uploadVars, fillVars, extVars>>

MigrateStep ==
    \E new \in MergeInputs :
        /\ m_prev' = m_rec
        /\ m_new' = new
        /\ m_rec' = dict_update(m_rec, new)
        /\ m_op' = "update"
        /\ UNCHANGED <<uploadVars, fillVars, extVars>>

MergeFieldsStep ==
    \E new \in MergeInputs :
        /\ m_prev' = m_rec
        /\ m_new' = new
        /\ m_rec' = merge_fields(m_rec, new)
        /\ m_op' = "merge_fields"
        /\ UNCHANGED <<uploadVars, fillVars, extVars>>

\* the stored string is parsed when the record is read, before any merge
ParseToonStep ==
    \E lines \in ToonLines :
        /\ m_op = "init"
        /\ m_prev' = EmptyDict
        /\ m_new' = lines
        /\ m_rec' = parse_toon_data(lines)
        /\ m_op' = "parse_toon_data"
        /\ UNCHANGED <<uploadVars, fillVars, extVars>>

(***************************************************************************)
(* The extracted_data table and its repository.                            *)
(***************************************************************************)
Users == {1}
Entities == {1, 2}
Procs == {1, 2}
FileNames == {"doc.pdf"}
Docs == {"d1", "d2"}
MaxRequests == 2
MaxSeedRuns == 1

NoFile == "<missing>"
Paths == Users \X Entities \X FileNames

\* hashlib.sha256(...).hexdigest(): distinct contents have distinct digests
sha256(content) == CASE content = "d1" -> "h1"
                     [] content = "d2" -> "h2"
                     [] OTHER -> "h?"

Range(s) == {s[i] : i \in DOMAIN s}

\* columns of database/models/extracted_data.py
ExtractedData(id, user_id, entity_id, status, processed_file_hashes, extracted_toon_object) ==
    [id |-> id, user_id |-> user_id, entity_id |-> entity_id, status |-> status,
     processed_file_hashes |-> processed_file_hashes,
     extracted_toon_object |-> extracted_toon_object]

\* autoincrement primary key
NextId(rows) == IF rows = {} THEN 1
                ELSE 1 + CHOOSE n \in {r.id : r \in rows} : \A r \in rows : r.id <= n

\* the constraint dropped: any insert is accepted
violates_unique_off(rows, row) == FALSE

\* entity_id is declared unique=True: an INSERT of a second row for the
\* entity raises IntegrityError
violates_unique(rows, row) == \E r \in rows : r.entity_id = row.entity_id

\* ExtractedDataRepository.get_by_entity
get_by_entity(rows, entity_id) == {r \in rows : r.entity_id = entity_id}

\* ExtractedDataRepository.get_single_by_entity: the entity's record or NULL
get_single_by_entity(rows, entity_id) ==
    IF get_by_entity(rows, entity_id) = {} THEN NULL
    ELSE CHOOSE r \in get_by_entity(rows, entity_id) : TRUE

\* ExtractedDataRepository.is_file_processed (merge step 1)
is_file_processed(rows, entity_id, file_hash) ==
    \E r \in get_by_entity(rows, entity_id) : file_hash \in Range(r.processed_file_hashes)

\* processed_source_hashes is a set kept as a list
add_hash(hashes, file_hash) ==
    IF file_hash \in Range(hashes) THEN hashes ELSE Append(hashes, file_hash)

\* ExtractedDataRepository.upsert_or_merge (merge steps 2 to 8, done under the
\* per-entity lock and one transaction, hence one atomic step)
upsert_or_merge(rows, user_id, entity_id, file_hash, status, extracted_toon_object) ==
    LET existing == get_single_by_entity(rows, entity_id) IN
    IF get_by_entity(rows, entity_id) = {}
    THEN LET row == ExtractedData(NextId(rows), user_id, entity_id, status,
                        IF status = 1 THEN <<file_hash>> ELSE << >>,
                        IF status = 1 THEN merge_fields(EmptyDict, extracted_toon_object)
                                      ELSE EmptyDict)
         IN IF violates_unique(rows, row) THEN rows ELSE rows \cup {row}
    ELSE LET row == IF status = 1
                    THEN [existing EXCEPT
                            !.status = status,
                            !.processed_file_hashes = add_hash(@, file_hash),
                            !.extracted_toon_object = merge_fields(@, extracted_toon_object)]
                    ELSE [existing EXCEPT !.status = status]
         IN (rows \ {existing}) \cup {row}

(***************************************************************************)
(* Upload requests.                                                        *)
(***************************************************************************)

\* datetime.now(), as a date
Today == [year |-> 2025, month |-> 1, day |-> 1]

NoDate == [year |-> 0, month |-> 0, day |-> 0]

\* a maximal run of digits of a string: its number and its length
Num(n, w) == [k |-> "num", n |-> n, w |-> w, s |-> ""]

\* a maximal run of word characters that is not all digits, in lower case
Word(s) == [k |-> "word", n |-> 0, w |-> 0, s |-> s]

\* the characters of the date strings of the model: runs of word characters
\* alternating with the separators between them
Tokens(dob_str) ==
    CASE dob_str = "1990-06-15" -> <<Num(1990, 4), "-", Num(6, 2), "-", Num(15, 2)>>
      [] dob_str = "15/06/1990" -> <<Num(15, 2), "/", Num(6, 2), "/", Num(1990, 4)>>
      [] dob_str = "01.01.1990" -> <<Num(1, 2), ".", Num(1, 2), ".", Num(1990, 4)>>
      [] dob_str = "2030-01-01" -> <<Num(2030, 4), "-", Num(1, 2), "-", Num(1, 2)>>
      [] dob_str = "06/15/1990" -> <<Num(6, 2), "/", Num(15, 2), "/", Num(1990, 4)>>
      [] dob_str = "31/02/1990" -> <<Num(31, 2), "/", Num(2, 2), "/", Num(1990, 4)>>
      [] dob_str = "29-02-2000" -> <<Num(29, 2), "-", Num(2, 2), "-", Num(2000, 4)>>
      [] dob_str = "01-01-2025" -> <<Num(1, 2), "-", Num(1, 2), "-", Num(2025, 4)>>
      [] dob_str = "1990/6/5"   -> <<Num(1990, 4), "/", Num(6, 1), "/", Num(5, 1)>>
      [] dob_str = "15 Jun 1990" -> <<Num(15, 2), " ", Word("jun"), " ", Num(1990, 4)>>
      [] dob_str = "15 June 90" -> <<Num(15, 2), " ", Word("june"), " ", Num(90, 2)>>
      [] dob_str = "15-06-90"   -> <<Num(15, 2), "-", Num(6, 2), "-", Num(90, 2)>>
      [] dob_str = "born 1990"  -> <<Word("born"), " ", Num(1990, 4)>>
      [] dob_str = "2090"       -> <<Num(2090, 4)>>
      [] dob_str = "1890"       -> <<Num(1890, 4)>>
      [] dob_str = "unknown"    -> <<Word("unknown")>>
      [] OTHER -> << >>

\* date_formats of calculate_age_from_dob, in the order they are tried
date_formats ==
    <<[sep |-> "/", order |-> "dmY"], [sep |-> "-", order |-> "dmY"],
      [sep |-> ".", order |-> "dmY"], [sep |-> "/", order |-> "Ymd"],
      [sep |-> "-", order |-> "Ymd"], [sep |-> " ", order |-> "dbY"],
      [sep |-> " ", order |-> "dBY"]>>

\* month names of %b and %B, matched without regard to case
month_abbr == <<"jan", "feb", "mar", "apr", "may", "jun",
                "jul", "aug", "sep", "oct", "nov", "dec">>
month_name == <<"january", "february", "march", "april", "may", "june",
                "july", "august", "september", "october", "november", "december">>

\* the directives of strptime: %d and %m take one or two digits, %Y four
IsDay(g) == g.k = "num" /\ g.w \in {1, 2} /\ g.n >= 1 /\ g.n <= 31
IsMonth(g) == g.k = "num" /\ g.w \in {1, 2} /\ g.n >= 1 /\ g.n <= 12
IsYear(g) == g.k = "num" /\ g.w = 4 /\ g.n >= 1
MonthOf(names, g) ==
    IF g.k = "word" /\ \E i \in DOMAIN names : names[i] = g.s
    THEN CHOOSE i \in DOMAIN names : names[i] = g.s
    ELSE 0

IsLeap(y) == (y % 4 = 0 /\ y % 100 # 0) \/ y % 400 = 0
DaysIn(y, m) == IF m = 2 THEN (IF IsLeap(y) THEN 29 ELSE 28)
                ELSE IF m \in {4, 6, 9, 11} THEN 30 ELSE 31

\* datetime.strptime(dob_str, fmt): the date, or NoDate for ValueError
strptime(toks, fmt) ==
    IF Len(toks) # 5 \/ toks[2] # fmt.sep \/ toks[4] # fmt.sep THEN NoDate
    ELSE LET d == IF fmt.order = "Ymd" THEN toks[5] ELSE toks[1]
             y == IF fmt.order = "Ymd" THEN toks[1] ELSE toks[5]
             m == toks[3]
             month == CASE fmt.order = "dbY" -> MonthOf(month_abbr, m)
                        [] fmt.order = "dBY" -> MonthOf(month_name, m)
                        [] OTHER -> IF IsMonth(m) THEN m.n ELSE 0
         IN IF IsDay(d) /\ IsYear(y) /\ month # 0 /\ d.n <= DaysIn(y.n, month)
            THEN [year |-> y.n, month |-> month, day |-> d.n]
            ELSE NoDate

\* datetime.strptime over the date formats of calculate_age_from_dob, tried
\* in turn; NoDate when none parses
strptime_any(dob_str) ==
    LET toks == Tokens(dob_str)
        ok == {i \in DOMAIN date_formats : strptime(toks, date_formats[i]) # NoDate}
    IN IF ok = {} THEN NoDate
       ELSE strptime(toks, date_formats[CHOOSE i \in ok : \A j \in ok : i <= j])

\* re.search(r'\b(19|20)\d{2}\b', dob_str) as a number; 0 when no match
year_match(dob_str) ==
    LET toks == Tokens(dob_str)
        hits == {i \in DOMAIN toks :
                    /\ i % 2 = 1
                    /\ toks[i].k = "num" /\ toks[i].w = 4
                    /\ toks[i].n >= 1900 /\ toks[i].n <= 2099}
    IN IF hits = {} THEN 0
       ELSE toks[CHOOSE i \in hits : \A j \in hits : i <= j].n

\* the age as the difference of the years alone
calculate_age_years_only(today, dob_str) ==
    IF ~Truthy(dob_str) THEN -1
    ELSE LET dob_date == strptime_any(Strip(dob_str)) IN
         IF dob_date = NoDate
         THEN LET birth_year == year_match(Strip(dob_str)) IN
              IF birth_year # 0 /\ 1900 < birth_year /\ birth_year <= today.year
              THEN today.year - birth_year
              ELSE -1
         ELSE LET age == today.year - dob_date.year
              IN IF age >= 0 THEN age ELSE -1

\* calculate_age_from_dob with datetime.now() = today: the age, or -1 for None
calculate_age_at(today, dob_str) ==
    IF ~Truthy(dob_str) THEN -1
    ELSE LET dob_date == strptime_any(Strip(dob_str)) IN
         IF dob_date = NoDate
         THEN LET birth_year == year_match(Strip(dob_str)) IN
              IF birth_year # 0 /\ 1900 < birth_year /\ birth_year <= today.year
              THEN today.year - birth_year
              ELSE -1
         ELSE LET before == \/ today.month < dob_date.month
                            \/ (today.month = dob_date.month /\ today.day < dob_date.day)
                  age == today.year - dob_date.year - (IF before THEN 1 ELSE 0)
              IN IF age >= 0 THEN age ELSE -1

calculate_age_from_dob(dob_str) == calculate_age_at(Today, dob_str)

age_keys == <<"age", "current_age">>
dob_keys == <<"date_of_birth", "dob", "birth_date", "birthdate", "date_of_birth_dob">>

Digit(n) == <<"0", "1", "2", "3", "4", "5", "6", "7", "8", "9">>[n + 1]

\* str(int) of a non-negative age
RECURSIVE AgeStr(_)
AgeStr(n) == IF n < 10 THEN Digit(n) ELSE AgeStr(n \div 10) \o Digit(n % 10)

\* enrich_extracted_data with datetime.now() = today: age is derived from the
\* first date of birth that gives one, unless an age is already there
enrich_at(today, data) ==
    LET has_age == \E i \in DOMAIN age_keys :
                       /\ age_keys[i] \in DOMAIN data
                       /\ Truthy(data[age_keys[i]])
                       /\ Strip(data[age_keys[i]]) # ""
        usable == {i \in DOMAIN dob_keys :
                       /\ dob_keys[i] \in DOMAIN data
                       /\ Truthy(data[dob_keys[i]])
                       /\ calculate_age_at(today, data[dob_keys[i]]) # -1}
    IN IF has_age \/ usable = {} THEN data
       ELSE LET first == CHOOSE i \in usable : \A j \in usable : i <= j
                age == AgeStr(calculate_age_at(today, data[dob_keys[first]]))
            IN [k \in DOMAIN data \cup {"age"} |-> IF k = "age" THEN age ELSE data[k]]

enrich_extracted_data(data) == enrich_at(Today, data)

\* what the agent service can return for the text of a document
AgentOutputs(text) ==
    IF text = "d1"
    THEN {[name |-> "A"], [name |-> "A", phone |-> "N/A"]}
    ELSE {[phone |-> "P"], [name |-> "B"]}

Idle == [pc |-> "idle", kind |-> "none", user |-> 0, entity |-> 0, path |-> << >>,
         content |-> "none", file_hash |-> "none", text |-> "none",
         extracted |-> EmptyDict, response |-> "none", err |-> "none"]

Active(p) == proc[p].pc \notin {"idle", "done"}

\* what the caller gets: the HTTP response of create_entity_data, or the
\* outcome of a direct call of extract_and_save_organize_data
Respond(kind, outcome) ==
    IF kind = "http"
    THEN CASE outcome = "ok"   -> "201 status=1"
           [] outcome = "skip" -> "201 status=None"
           [] OTHER            -> "500"
    ELSE CASE outcome = "ok"   -> "return 1"
           [] outcome = "skip" -> "return None"
           [] OTHER            -> "raise ValueError"

Fail(p, err) ==
    proc' = [proc EXCEPT ![p].pc = "done", ![p].err = err,
                         ![p].response = Respond(proc[p].kind, "raise")]

UploadInit ==
    /\ extracted_data = {}
    /\ files = [path \in Paths |-> NoFile]
    /\ proc = [p \in Procs |-> Idle]
    /\ nreq = 0
    /\ overlap = FALSE
    /\ seed = [pc |-> "idle", entity |-> 0, seen |-> FALSE, runs |-> 0]

\* create_entity_data: the request arrives, its body is read and hashed
Receive(p) ==
    \E u \in Users, e \in Entities, fn \in FileNames, c \in Docs :
        /\ proc[p].pc \in {"idle", "done"}
        /\ nreq < MaxRequests
        /\ proc' = [proc EXCEPT ![p] = [Idle EXCEPT !.pc = "check", !.kind = "http",
                                          !.user = u, !.entity = e,
                                          !.path = <<u, e, fn>>, !.content = c]]
        /\ nreq' = nreq + 1
        /\ overlap' = (\E q \in Procs \ {p} : Active(q))
        /\ UNCHANGED <<extracted_data, files, seed>>
        /\ UNCHANGED <<mergeVars, fillVars, extVars>>

\* create_entity_data: the check for existing data.  row.file_hash is read
\* from every row of the entity; the handler's name `status` is a local that
\* is unbound until the extraction returns, so every `status.HTTP_...` of an
\* error path raises and the server answers 500.
HandlerCheck(p) ==
    /\ proc[p].pc = "check"
    /\ LET data == get_by_entity(extracted_data, proc[p].entity)
           readable == \A row \in data : "file_hash" \in DOMAIN row
           found == \E row \in data : "file_hash" \in DOMAIN row
                                      /\ row.file_hash = sha256(proc[p].content)
       IN IF readable /\ ~found
          THEN proc' = [proc EXCEPT ![p].pc = "store"]
          ELSE Fail(p, "check")
    /\ UNCHANGED <<extracted_data, files, nreq, overlap, seed>>
    /\ UNCHANGED <<mergeVars, fillVars, extVars>>

\* create_entity_data: the body is written under the upload directory
StoreFile(p) ==
    /\ proc[p].pc = "store"
    /\ files' = [files EXCEPT ![proc[p].path] = proc[p].content]
    /\ proc' = [proc EXCEPT ![p].pc = "hash"]
    /\ UNCHANGED <<extracted_data, nreq, overlap, seed>>
    /\ UNCHANGED <<mergeVars, fillVars, extVars>>

\* extract_and_save_organize_data called on a path, as the module's main does
DirectCall(p) ==
    \E u \in Users, e \in Entities, path \in Paths :
        /\ proc[p].pc \in {"idle", "done"}
        /\ nreq < MaxRequests
        /\ proc' = [proc EXCEPT ![p] = [Idle EXCEPT !.pc = "hash", !.kind = "direct",
                                          !.user = u, !.entity = e, !.path = path]]
        /\ nreq' = nreq + 1
        /\ overlap' = (\E q \in Procs \ {p} : Active(q))
        /\ UNCHANGED <<extracted_data, files, seed>>
        /\ UNCHANGED <<mergeVars, fillVars, extVars>>

\* extract_and_save_organize_data: the file is opened and hashed
HashFile(p) ==
    /\ proc[p].pc = "hash"
    /\ IF files[proc[p].path] = NoFile
       THEN Fail(p, "hash")
       ELSE proc' = [proc EXCEPT ![p].pc = "dupcheck",
                                 ![p].file_hash = sha256(files[proc[p].path])]
    /\ UNCHANGED <<extracted_data, files, nreq, overlap, seed>>
    /\ UNCHANGED <<mergeVars, fillVars, extVars>>

\* the early return dropped: a processed file is extracted again
DupCheckNoSkip(p) ==
    /\ proc[p].pc = "dupcheck"
    /\ proc' = [proc EXCEPT ![p].pc = "extract"]
    /\ UNCHANGED <<extracted_data, files, nreq, overlap, seed>>
    /\ UNCHANGED <<mergeVars, fillVars, extVars>>

\* extract_and_save_organize_data: a file already processed for the entity
\* is skipped, the function returns None
DupCheck(p) ==
    /\ proc[p].pc = "dupcheck"
    /\ IF is_file_processed(extracted_data, proc[p].entity, proc[p].file_hash)
       THEN proc' = [proc EXCEPT ![p].pc = "done",
                                 ![p].response = Respond(proc[p].kind, "skip")]
       ELSE proc' = [proc EXCEPT ![p].pc = "extract"]
    /\ UNCHANGED <<extracted_data, files, nreq, overlap, seed>>
    /\ UNCHANGED <<mergeVars, fillVars, extVars>>

\* extract_and_save_organize_data: text extraction; it raises, or returns no
\* text, or returns the text of the file now stored at the path
ExtractText(p) ==
    /\ proc[p].pc = "extract"
    /\ \E outcome \in {"raise", "empty", "text"} :
          CASE outcome = "raise" -> Fail(p, "ocr")
            [] outcome = "empty" -> Fail(p, "notext")
            [] OTHER -> proc' = [proc EXCEPT ![p].pc = "agent",
                                             ![p].text = files[proc[p].path]]
    /\ UNCHANGED <<extracted_data, files, nreq, overlap, seed>>
    /\ UNCHANGED <<mergeVars, fillVars, extVars>>

\* a failed agent call still records the file as processed with status 0
AgentCallSavesFailure(p) ==
    /\ proc[p].pc = "agent"
    /\ \/ /\ Fail(p, "agent")
          /\ extracted_data' =
                LET rows == upsert_or_merge(extracted_data, proc[p].user, proc[p].entity,
                                            proc[p].file_hash, 1, EmptyDict)
                IN rows
       \/ /\ \E data \in AgentOutputs(proc[p].text) :
                proc' = [proc EXCEPT ![p].pc = "upsert",
                                     ![p].extracted = enrich_extracted_data(data)]
          /\ UNCHANGED extracted_data
    /\ UNCHANGED <<files, nreq, overlap, seed>>
    /\ UNCHANGED <<mergeVars, fillVars, extVars>>

\* extract_and_save_organize_data: the agent call; a non-200 answer, a
\* timeout or an empty extraction raises, otherwise the data is enriched
AgentCall(p) ==
    /\ proc[p].pc = "agent"
    /\ \/ Fail(p, "agent")
       \/ \E data \in AgentOutputs(proc[p].text) :
             proc' = [proc EXCEPT ![p].pc = "upsert",
                                  ![p].extracted = enrich_extracted_data(data)]
    /\ UNCHANGED <<extracted_data, files, nreq, overlap, seed>>
    /\ UNCHANGED <<mergeVars, fillVars, extVars>>

\* extract_and_save_organize_data: the merge into the entity's record
Upsert(p) ==
    /\ proc[p].pc = "upsert"
    /\ extracted_data' = upsert_or_merge(extracted_data, proc[p].user, proc[p].entity,
                                         proc[p].file_hash, 1, proc[p].extracted)
    /\ proc' = [proc EXCEPT ![p].pc = "done",
                            ![p].response = Respond(proc[p].kind, "ok")]
    /\ UNCHANGED <<files, nreq, overlap, seed>>
    /\ UNCHANGED <<mergeVars, fillVars, extVars>>

UploadStep ==
    \E p \in Procs :
        \/ Receive(p)
        \/ HandlerCheck(p)
        \/ StoreFile(p)
        \/ DirectCall(p)
        \/ HashFile(p)
        \/ DupCheck(p)
        \/ ExtractText(p)
        \/ AgentCall(p)
        \/ Upsert(p)

(***************************************************************************)
(* Form fill.                                                              *)
(***************************************************************************)

\* a form element of a template: <input>, <select> or <textarea>
Element(tag, type, name, id, required, value, options, selected, checked) ==
    [tag |-> tag, type |-> type, name |-> name, id |-> id, required |-> required,
     value |-> value, options |-> options, selected |-> selected, checked |-> checked]

\* element.get('type', element.name)
element_type(el) == IF el.type # NULL THEN el.type ELSE el.tag

\* parse_html_template: the field metadata of one element
field_info_of(el) ==
    [name |-> IF el.name # NULL THEN el.name ELSE el.id,
     label |-> IF el.name # NULL THEN el.name ELSE el.id,
     type |-> IF el.tag = "select" THEN "select" ELSE element_type(el),
     required |-> el.required,
     options |-> IF el.tag = "select"
                 THEN SelectSeq(el.options, LAMBDA o : Truthy(o))
                 ELSE << >>]

\* parse_html_template: form_fields, keyed by name or id; elements without
\* either are skipped and a later element of the same key replaces an earlier
RECURSIVE parse_html_template_from(_, _)
parse_html_template_from(form_fields, elements) ==
    IF elements = << >> THEN form_fields
    ELSE LET el == Head(elements)
             key == IF el.name # NULL THEN el.name ELSE el.id
             next == IF key = NULL THEN form_fields
                     ELSE [k \in DOMAIN form_fields \cup {key} |->
                              IF k = key THEN field_info_of(el) ELSE form_fields[k]]
         IN parse_html_template_from(next, Tail(elements))

parse_html_template(elements) == parse_html_template_from(EmptyDict, elements)

\* the regular expression of validate_field_data on the values of the model
MatchesEmail(v) == v \in {"a@b.co"}

\* float(value) succeeds
IsNumber(v) == v \in {"1", "35"}

\* (True, None) of validate_field_data
Valid == << >>

\* validate_field_data: the error message, or Valid when the value is valid
validate_field_data(field_info, value) ==
    IF field_info.required /\ ~Truthy(value)
    THEN <<field_info.label, "is required">>
    ELSE IF ~Truthy(value) THEN Valid
    ELSE IF field_info.type = "email" /\ ~MatchesEmail(value)
    THEN <<field_info.label, "invalid email">>
    ELSE IF field_info.type = "select" /\ field_info.options # << >>
            /\ value \notin Range(field_info.options)
    THEN <<field_info.label, "invalid option">>
    ELSE IF field_info.type = "number" /\ ~IsNumber(value)
    THEN <<field_info.label, "invalid number">>
    ELSE Valid

\* fill_html_template: one element given the value of its field
fill_element(el, value) ==
    IF el.tag = "textarea" THEN [el EXCEPT !.value = value]
    ELSE IF el.tag = "select"
    THEN [el EXCEPT !.selected = {o \in Range(el.options) : o = value}]
    ELSE IF element_type(el) \in {"checkbox", "radio"}
    THEN [el EXCEPT !.checked =
             Lower(value) \in {"true", "yes", "1", "on",
                               Lower(IF el.value # NULL THEN el.value ELSE "on")}]
    ELSE [el EXCEPT !.value = value]

\* fill_html_template: one item of form_data; elements are found by name,
\* and by id only when no element has the name
fill_field(elements, field_name, value) ==
    IF value = NULL THEN elements
    ELSE LET by_name == {i \in DOMAIN elements : elements[i].name = field_name}
             by_id   == {i \in DOMAIN elements : elements[i].id = field_name}
             found   == IF by_name # {} THEN by_name ELSE by_id
         IN [i \in DOMAIN elements |->
                IF i \in found THEN fill_element(elements[i], value) ELSE elements[i]]

RECURSIVE fill_html_template_from(_, _, _)
fill_html_template_from(elements, form_data, keys) ==
    IF keys = << >> THEN elements
    ELSE fill_html_template_from(
             fill_field(elements, Head(keys), form_data[Head(keys)]),
             form_data, Tail(keys))

\* fill_html_template: the items of form_data applied in turn
fill_html_template(elements, form_data) ==
    fill_html_template_from(elements, form_data, SetToSeq(DOMAIN form_data))

\* the templates of the model: a text input and a select with two options,
\* and an email input with a number input
FormElements ==
    { <<Element("input", "text", "name", "name", FALSE, "", << >>, {}, FALSE),
        Element("select", NULL, "gender", "gender", FALSE, NULL,
                <<"", "male", "female">>, {}, FALSE)>>,
      <<Element("input", "text", "name", "name", TRUE, "", << >>, {}, FALSE),
        Element("select", NULL, "gender", NULL, TRUE, NULL,
                <<"male", "female">>, {"male"}, FALSE)>>,
      <<Element("input", "email", "email", "email", FALSE, "", << >>, {}, FALSE),
        Element("input", "number", "age", NULL, FALSE, "18", << >>, {}, FALSE)>> }

\* the row of table templates and the content of its file
TemplateRows ==
    {[template_type |-> tt, lang |-> "en", elements |-> els,
      form_fields |-> parse_html_template(els)] :
        tt \in {"html", "pdf"}, els \in FormElements}

\* records the uploads can have produced for the entity being filled
FillEntityData ==
    {[name |-> "A"], [name |-> "A", gender |-> "male"], [gender |-> "unknown"],
     [name |-> "A", phone |-> "P"]}

TemplateIds == {1, 2}

\* what the agent service can answer to /fill-form/
FillKeys == {"name", "gender", "bogus"}
FillVals == {"", "A", "John", "male", "unknown", NULL}
FormatKeys == {"email", "age"}
FormatVals == {"", "bad", "a@b.co", "35", NULL}
FillResponses == Dicts(FillKeys, FillVals) \cup Dicts(FormatKeys, FormatVals)

NoResult == [endpoint |-> "none", status |-> "none", entity_data |-> EmptyDict,
             agent_response |-> EmptyDict, filled_data |-> EmptyDict,
             validation_warnings |-> {}, filled_html |-> << >>]

FillIdle ==
    /\ f_template = [template_type |-> "none", lang |-> "en", elements |-> << >>,
                     form_fields |-> EmptyDict]
    /\ f_result = NoResult

FillInit ==
    /\ MergeInit
    /\ ExtIdle
    /\ extracted_data \in
          {{}} \cup {{ExtractedData(1, 1, e, 1, <<"h1">>, data)} :
                        e \in Entities, data \in FillEntityData}
    /\ files = [path \in Paths |-> NoFile]
    /\ proc = [p \in Procs |-> Idle]
    /\ nreq = 0
    /\ overlap = FALSE
    /\ seed = [pc |-> "idle", entity |-> 0, seen |-> FALSE, runs |-> 0]
    /\ f_template \in TemplateRows
    /\ f_result = NoResult

\* form_fill: the whole handler; template 1 is the stored template, the agent
\* call fails or answers filled_form
form_fill(template_id, entity_id, agent_ok, filled_form) ==
    IF template_id # 1 THEN [NoResult EXCEPT !.status = "404"]
    ELSE IF f_template.template_type # "html" THEN [NoResult EXCEPT !.status = "400"]
    ELSE
    LET form_fields_map == f_template.form_fields
        entity_data ==
            IF get_by_entity(extracted_data, entity_id) = {} THEN EmptyDict
            ELSE get_single_by_entity(extracted_data, entity_id).extracted_toon_object
        validation_warnings ==
            {validate_field_data(form_fields_map[f], filled_form[f]) :
                f \in DOMAIN form_fields_map \cap DOMAIN filled_form} \ {Valid}
    IN IF ~agent_ok THEN [NoResult EXCEPT !.status = "500", !.entity_data = entity_data]
       ELSE [endpoint |-> "none", status |-> "200",
             entity_data |-> entity_data,
             agent_response |-> filled_form,
             filled_data |-> filled_form,
             validation_warnings |-> validation_warnings,
             filled_html |-> fill_html_template(f_template.elements, filled_form)]

\* a form fill that writes the mapper's answer back into the entity's record
FormFillWritesBack ==
    \E template_id \in TemplateIds, entity_id \in Entities,
       agent_ok \in BOOLEAN, filled_form \in FillResponses :
        /\ f_result.endpoint = "none"
        /\ f_result' = [form_fill(template_id, entity_id, agent_ok, filled_form)
                           EXCEPT !.endpoint = "form_fill"]
        /\ extracted_data' =
              {IF row.entity_id = entity_id
               THEN [row EXCEPT !.extracted_toon_object = dict_update(@, filled_form)]
               ELSE row : row \in extracted_data}
        /\ UNCHANGED <<f_template, files, proc, nreq, overlap, seed>>
        /\ UNCHANGED <<mergeVars, extVars>>

\* POST /form-fill: one request, answered with the result of form_fill
FormFill ==
    \E template_id \in TemplateIds, entity_id \in Entities,
       agent_ok \in BOOLEAN, filled_form \in FillResponses :
        /\ f_result.endpoint = "none"
        /\ f_result' = [form_fill(template_id, entity_id, agent_ok, filled_form)
                           EXCEPT !.endpoint = "form_fill"]
        /\ UNCHANGED <<f_template, extracted_data, files, proc, nreq, overlap, seed>>
        /\ UNCHANGED <<mergeVars, extVars>>

\* preview_filled_form: calls form_fill and answers with the saved HTML; an
\* HTTPException of form_fill propagates
PreviewFilledForm ==
    \E template_id \in TemplateIds, entity_id \in Entities,
       agent_ok \in BOOLEAN, filled_form \in FillResponses :
        /\ f_result.endpoint = "none"
        /\ f_result' = [form_fill(template_id, entity_id, agent_ok, filled_form)
                           EXCEPT !.endpoint = "preview"]
        /\ UNCHANGED <<f_template, extracted_data, files, proc, nreq, overlap, seed>>
        /\ UNCHANGED <<mergeVars, extVars>>

\* the response is sent; the next request starts from the same tables
FillReturn ==
    /\ f_result.endpoint # "none"
    /\ f_result' = NoResult
    /\ UNCHANGED <<f_template, extracted_data, files, proc, nreq, overlap, seed>>
    /\ UNCHANGED <<mergeVars, extVars>>

FillNext ==
    \/ FormFill
    \/ PreviewFilledForm
    \/ FillReturn

SpecFill == FillInit /\ [][FillNext]_vars


(***************************************************************************)
(* SpecNormalize: the semantic classification of one form field.  Each     *)
(* regular expression of SEMANTIC_FIELD_MAP is the set of the shortest     *)
(* lower-case literals one of which a text must contain for re.search to   *)
(* succeed with re.IGNORECASE; the only white space of the model's texts   *)
(* is the blank.  The description text of a rule is left out.              *)
(***************************************************************************)

SEMANTIC_FIELD_MAP ==
    <<
      [semantic_type |-> "person_name",
       pattern |-> {"name"},
       likely_keys |-> <<"full_name", "name", "applicant_name", "resident_name">>],
      [semantic_type |-> "father_name",
       pattern |-> {"father_name", "fathername", "fathers_name", "fathersname"},
       likely_keys |-> <<"father_name", "fathers_name", "parent_name">>],
      [semantic_type |-> "mother_name",
       pattern |-> {"mother_name", "mothername", "mothers_name", "mothersname"},
       likely_keys |-> <<"mother_name", "mothers_name">>],
      [semantic_type |-> "spouse_name",
       pattern |-> {"spouse_name", "spousename", "husband_name", "husbandname", "wife_name", "wifename"},
       likely_keys |-> <<"spouse_name", "husband_name", "wife_name">>],
      [semantic_type |-> "guardian_name",
       pattern |-> {"guardian_name", "guardianname", "parent_guardian", "parentguardian"},
       likely_keys |-> <<"guardian_name", "parent_guardian_name", "father_name", "mother_name">>],
      [semantic_type |-> "aadhaar_number",
       pattern |-> {"aadhaar", "aadhar", "uid"},
       likely_keys |-> <<"aadhaar_number", "aadhar_number", "uid", "aadhaar">>],
      [semantic_type |-> "pan_number",
       pattern |-> {"pan"},
       likely_keys |-> <<"pan_number", "pan", "pan_no">>],
      [semantic_type |-> "passport_number",
       pattern |-> {"passport"},
       likely_keys |-> <<"passport_number", "passport">>],
      [semantic_type |-> "voter_id",
       pattern |-> {"voter_id", "voterid", "epic"},
       likely_keys |-> <<"voter_id", "epic_number", "voter_id_number">>],
      [semantic_type |-> "driving_license",
       pattern |-> {"driving_license", "drivinglicense", "dl"},
       likely_keys |-> <<"driving_license_number", "dl_number", "driving_license">>],
      [semantic_type |-> "enrollment_id",
       pattern |-> {"enrolment", "enrollment"},
       likely_keys |-> <<"enrollment_number", "enrolment_id", "registration_number">>],
      [semantic_type |-> "mobile_number",
       pattern |-> {"mobile", "phone", "contact"},
       likely_keys |-> <<"mobile_number", "phone_number", "contact_number", "mobile">>],
      [semantic_type |-> "email",
       pattern |-> {"email", "e_mail"},
       likely_keys |-> <<"email", "email_address", "email_id">>],
      [semantic_type |-> "house_number",
       pattern |-> {"house", "building", "flat"},
       likely_keys |-> <<"house_number", "building_number", "flat_number", "house_no">>],
      [semantic_type |-> "street",
       pattern |-> {"street", "road", "lane"},
       likely_keys |-> <<"street", "road", "lane", "street_name">>],
      [semantic_type |-> "landmark",
       pattern |-> {"landmark"},
       likely_keys |-> <<"landmark", "near_landmark">>],
      [semantic_type |-> "village_town_city",
       pattern |-> {"village", "town", "city", "vtc"},
       likely_keys |-> <<"village_town_city", "city", "town", "village", "vtc">>],
      [semantic_type |-> "post_office",
       pattern |-> {"post_office", "postoffice", "po"},
       likely_keys |-> <<"post_office", "po", "post_office_name">>],
      [semantic_type |-> "sub_district",
       pattern |-> {"sub_district", "subdistrict", "taluk", "tehsil", "mandal"},
       likely_keys |-> <<"sub_district", "taluk", "tehsil", "mandal">>],
      [semantic_type |-> "district",
       pattern |-> {"district"},
       likely_keys |-> <<"district", "district_name">>],
      [semantic_type |-> "state",
       pattern |-> {"state", "province"},
       likely_keys |-> <<"state", "province", "state_name">>],
      [semantic_type |-> "country",
       pattern |-> {"country"},
       likely_keys |-> <<"country", "country_name">>],
      [semantic_type |-> "pincode",
       pattern |-> {"pin_code", "pincode", "postal_code", "postalcode", "zip"},
       likely_keys |-> <<"pincode", "pin_code", "postal_code", "zip_code", "pin">>],
      [semantic_type |-> "address_line_1",
       pattern |-> {"address_line", "addressline", "address_1", "address 1", "address1"},
       likely_keys |-> <<"address_line_1", "address1", "address">>],
      [semantic_type |-> "address_line_2",
       pattern |-> {"address_2", "address 2", "address2"},
       likely_keys |-> <<"address_line_2", "address2">>],
      [semantic_type |-> "gender",
       pattern |-> {"gender", "sex"},
       likely_keys |-> <<"gender", "sex">>],
      [semantic_type |-> "date_of_birth",
       pattern |-> {"dob", "d_ob", "d ob", "do_b", "do b", "d_o_b", "d_o b", "d o_b", "d o b", "date_of_birth", "dateof_birth", "date_ofbirth", "dateofbirth", "birth_date", "birthdate"},
       likely_keys |-> <<"date_of_birth", "dob", "birth_date", "birthdate">>],
      [semantic_type |-> "age",
       pattern |-> {"age"},
       likely_keys |-> <<"age", "current_age">>],
      [semantic_type |-> "nationality",
       pattern |-> {"nationality"},
       likely_keys |-> <<"nationality", "citizenship">>],
      [semantic_type |-> "bank_name",
       pattern |-> {"bank_name", "bankname"},
       likely_keys |-> <<"bank_name", "bank">>],
      [semantic_type |-> "branch_name",
       pattern |-> {"branch"},
       likely_keys |-> <<"branch_name", "branch", "bank_branch">>],
      [semantic_type |-> "account_number",
       pattern |-> {"account", "ac", "a/c"},
       likely_keys |-> <<"account_number", "account_no", "bank_account">>],
      [semantic_type |-> "ifsc_code",
       pattern |-> {"ifsc"},
       likely_keys |-> <<"ifsc_code", "ifsc", "bank_ifsc">>],
      [semantic_type |-> "issue_date",
       pattern |-> {"issue_date", "issuedate"},
       likely_keys |-> <<"issue_date", "date_of_issue", "start_date">>],
      [semantic_type |-> "expiry_date",
       pattern |-> {"expiry_date", "expirydate", "valid_until", "validuntil", "valid_till", "validtill"},
       likely_keys |-> <<"expiry_date", "date_of_expiry", "valid_until", "end_date">>]
    >>

\* _get_semantic_info: the first rule, in the order of the dict, whose
\* pattern is found in the lower-cased name and label
get_semantic_info(field_name, label) ==
    LET combined_text == Lower(field_name \o " " \o label)
        hits == {i \in DOMAIN SEMANTIC_FIELD_MAP :
                    \E lit \in SEMANTIC_FIELD_MAP[i].pattern :
                        Contains(combined_text, lit)}
    IN IF hits = {}
       THEN [semantic_type |-> "unknown", likely_keys |-> <<Lower(field_name)>>]
       ELSE LET info == SEMANTIC_FIELD_MAP[CHOOSE i \in hits : \A j \in hits : i <= j]
            IN [semantic_type |-> info.semantic_type, likely_keys |-> info.likely_keys]

\* name attributes and label texts of the form fields of the model
FieldNames ==
    {"name", "full_name", "father_name", "mother_name", "spouse_name",
     "guardian_name", "bank_name", "branch_name", "Father_Name", "fathers_name",
     "husband_name", "branch", "district", "sub_district", "uid", "dob",
     "email", "account_no", "Blood Group", "blood_group", "bloodGroup",
     "blood-group", "religion", "f1", "village", "page", "x"}
Labels == {"", "Name", "Father's Name", "Blood Group", "Bank"}

NormInit ==
    /\ UploadInit /\ MergeInit /\ FillIdle /\ EnrichIdle /\ TemplatesIdle
    /\ EntitiesIdle /\ TasksIdle /\ MoreIdle
    /\ n_name \in FieldNames
    /\ n_label \in Labels
    /\ n_out = NoInfo

\* parse_html_template: the semantic info of a field is looked up
GetSemanticInfo ==
    /\ n_out = NoInfo
    /\ n_out' = get_semantic_info(n_name, n_label)
    /\ UNCHANGED <<n_name, n_label>>
    /\ UNCHANGED <<uploadVars, mergeVars, fillVars, enrichVars, templateVars, entityVars, tasks, moreVars>>

NormNext == GetSemanticInfo

SpecNormalize == NormInit /\ [][NormNext]_vars

(***************************************************************************)
(* SpecTemplates: template uploads.  create_template awaits only the read  *)
(* of the uploaded file, so the requests of one server process run one     *)
(* after the other.                                                        *)
(***************************************************************************)

TemplateUsers == {1, 2}
TemplateFileNames == {"form.html", "form.pdf"}
\* contents of uploaded files; "bad" is not UTF-8 text
Contents == {"c1", "c2", "bad"}

\* str(user.id)
UserStr(u) == IF u = 1 THEN "1" ELSE "2"

\* hashlib.sha256(...).hexdigest(): distinct texts have distinct digests
hexdigest(text) == "sha(" \o text \o ")"

\* a row of table templates
Template(id, user_id, template_path, file_hash, name) ==
    [id |-> id, user_id |-> user_id, template_path |-> template_path,
     file_hash |-> file_hash, name |-> name]

\* TemplateRepository.get_by_hash: the row of that hash, as a set
get_by_hash(rows, file_hash) == {row \in rows : row.file_hash = file_hash}

\* the unique constraint of templates.file_hash
hash_taken(rows, file_hash) == \E row \in rows : row.file_hash = file_hash

\* TemplateRepository.create as create_template calls it
template_create(rows, user_id, path, file_hash, name) ==
    rows \cup {Template(NextId(rows), user_id, path, file_hash, name)}

\* file.filename.endswith('.html')
IsHtmlName(filename) == filename = "form.html"

\* create_template: what the handler answers and leaves behind
create_template(user, filename, content) ==
    LET digest == hexdigest(content)
        existing_template == get_by_hash(templates, digest)
        own == {row \in existing_template : row.user_id = user}
        file_hash == IF existing_template # {}
                     THEN hexdigest(digest \o "_" \o UserStr(user))
                     ELSE digest
        plain == <<user, filename, "">>
        file_path == IF plain \in DOMAIN t_files
                     THEN <<user, filename, file_hash>> ELSE plain
        written == [q \in DOMAIN t_files \cup {file_path} |->
                       IF q = file_path THEN content ELSE t_files[q]]
        response(status, id) ==
            [op |-> "create", user |-> user, filename |-> filename,
             content |-> content, status |-> status, template |-> id]
    IN IF ~IsHtmlName(filename)
       THEN [rows |-> templates, stored |-> t_files, response |-> response("400", 0)]
       ELSE IF own # {}
       THEN [rows |-> templates, stored |-> t_files,
             response |-> response("200", (CHOOSE row \in own : TRUE).id)]
       ELSE IF content = "bad"
       THEN [rows |-> templates, stored |-> t_files, response |-> response("400", 0)]
       ELSE IF hash_taken(templates, file_hash)
       THEN [rows |-> templates, stored |-> written, response |-> response("500", 0)]
       ELSE [rows |-> template_create(templates, user, file_path, file_hash, filename),
             stored |-> written,
             response |-> response("200", NextId(templates))]

\* POST /templates
CreateTemplate ==
    \E user \in TemplateUsers, filename \in TemplateFileNames, content \in Contents :
        /\ t_result = NoResponse
        /\ LET out == create_template(user, filename, content)
           IN /\ templates' = out.rows
              /\ t_files' = out.stored
              /\ t_result' = out.response
        /\ UNCHANGED <<uploadVars, mergeVars, fillVars, enrichVars, normVars, entityVars, tasks, moreVars>>

\* the response is sent
TemplateReturn ==
    /\ t_result # NoResponse
    /\ t_result' = NoResponse
    /\ UNCHANGED <<templates, t_files>>
    /\ UNCHANGED <<uploadVars, mergeVars, fillVars, enrichVars, normVars, entityVars, tasks, moreVars>>

TemplatesInit ==
    /\ UploadInit /\ MergeInit /\ FillIdle /\ EnrichIdle /\ NormIdle
    /\ TemplatesIdle
    /\ EntitiesIdle /\ TasksIdle /\ MoreIdle

TemplatesNext ==
    \/ CreateTemplate
    \/ TemplateReturn

SpecTemplates == TemplatesInit /\ [][TemplatesNext]_vars

(***************************************************************************)
(* SpecEnrich: enrichment applied to one extracted dictionary.             *)
(***************************************************************************)

\* the dates datetime.now() takes in the model
Todays ==
    {[year |-> 2025, month |-> 1, day |-> 1], [year |-> 2025, month |-> 6, day |-> 14],
     [year |-> 2025, month |-> 6, day |-> 15], [year |-> 2024, month |-> 2, day |-> 29],
     [year |-> 2026, month |-> 11, day |-> 5]}

\* values the agent can return for a date of birth
DobStrs ==
    {"1990-06-15", "15/06/1990", "01.01.1990", "2030-01-01", "06/15/1990",
     "31/02/1990", "29-02-2000", "1990/6/5", "15 Jun 1990", "15 June 90",
     "15-06-90", "01-01-2025", "born 1990", "2090", "1890", "unknown", "", " ", NULL}

\* values the agent can return for an age
AgeVals == {"40", "", " ", NULL}

EnrichInputs ==
    {d \in Dicts({"date_of_birth", "dob", "age", "current_age"}, DobStrs \cup AgeVals) :
        /\ \A k \in DOMAIN d \cap {"date_of_birth", "dob"} : d[k] \in DobStrs
        /\ \A k \in DOMAIN d \cap {"age", "current_age"} : d[k] \in AgeVals}

EnrichInit ==
    /\ UploadInit /\ MergeInit /\ FillIdle /\ NormIdle /\ TemplatesIdle
    /\ EntitiesIdle /\ TasksIdle /\ MoreIdle
    /\ e_today \in Todays
    /\ e_data \in EnrichInputs
    /\ e_out = EmptyDict
    /\ e_op = "init"

\* extract_and_save_organize_data: the agent's dictionary is enriched
EnrichStep ==
    /\ e_op = "init"
    /\ e_out' = enrich_at(e_today, e_data)
    /\ e_op' = "enrich"
    /\ UNCHANGED <<e_today, e_data>>
    /\ UNCHANGED <<uploadVars, mergeVars, fillVars, normVars, templateVars, entityVars, tasks, moreVars>>

EnrichNext == EnrichStep

SpecEnrich == EnrichInit /\ [][EnrichNext]_vars

Init == UploadInit /\ MergeInit /\ FillIdle /\ ExtIdle

Next == UploadStep

Spec == Init /\ [][Next]_vars

MergeNext ==
    \/ DeepMergeStep
    \/ MigrateStep
    \/ MergeFieldsStep
    \/ ParseToonStep

SpecMerge == Init /\ [][MergeNext]_vars

(***************************************************************************)
(* SpecSeed: uploads together with the other writers of extracted_data.    *)
(***************************************************************************)

\* DUMMY_EXTRACTED_DATA: a full name, and update flags left empty
SeedData == [name |-> "S", phone |-> ""]
SeedHashes == <<"dummy_hash">>

\* seed_test_data: SELECT the entity's extracted data
SeedQuery ==
    \E e \in Entities :
        /\ seed.pc = "idle"
        /\ seed.runs < MaxSeedRuns
        /\ seed' = [pc |-> "queried", entity |-> e,
                    seen |-> get_by_entity(extracted_data, e) # {},
                    runs |-> seed.runs + 1]
        /\ UNCHANGED <<extracted_data, files, proc, nreq, overlap>>
        /\ UNCHANGED <<mergeVars, fillVars, extVars>>

\* seed_test_data: create the row when none was seen, else overwrite the
\* seen row, then commit; an IntegrityError rolls the transaction back
SeedCommit ==
    /\ seed.pc = "queried"
    /\ seed' = [seed EXCEPT !.pc = "idle", !.seen = FALSE]
    /\ LET row == ExtractedData(NextId(extracted_data), 1, seed.entity, 1,
                                SeedHashes, SeedData)
       IN IF ~seed.seen
          THEN extracted_data' = IF violates_unique(extracted_data, row)
                                 THEN extracted_data
                                 ELSE extracted_data \cup {row}
          ELSE extracted_data' =
                  {IF r.entity_id = seed.entity
                   THEN [r EXCEPT !.status = 1,
                                  !.processed_file_hashes = SeedHashes,
                                  !.extracted_toon_object = SeedData]
                   ELSE r : r \in extracted_data}
    /\ UNCHANGED <<files, proc, nreq, overlap>>
    /\ UNCHANGED <<mergeVars, fillVars, extVars>>

\* ExtractedDataRepository.create: the constructor is given file_hash, which
\* is not a column of the model, and raises before anything is added
RepositoryCreate(p) ==
    \E u \in Users, e \in Entities :
        /\ proc[p].pc \in {"idle", "done"}
        /\ nreq < MaxRequests
        /\ LET accepted == "file_hash" \in
                   DOMAIN ExtractedData(0, u, e, 0, << >>, EmptyDict)
               row == ExtractedData(NextId(extracted_data), u, e, 0, << >>, EmptyDict)
           IN IF accepted /\ ~violates_unique(extracted_data, row)
              THEN /\ extracted_data' = extracted_data \cup {row}
                   /\ proc' = [proc EXCEPT ![p] = [Idle EXCEPT !.pc = "done",
                                  !.kind = "create", !.user = u, !.entity = e,
                                  !.response = "return row"]]
              ELSE /\ extracted_data' = extracted_data
                   /\ proc' = [proc EXCEPT ![p] = [Idle EXCEPT !.pc = "done",
                                  !.kind = "create", !.user = u, !.entity = e,
                                  !.err = "create", !.response = "raise TypeError"]]
        /\ nreq' = nreq + 1
        /\ overlap' = (\E q \in Procs \ {p} : Active(q))
        /\ UNCHANGED <<files, seed>>
        /\ UNCHANGED <<mergeVars, fillVars, extVars>>

SeedNext ==
    \/ UploadStep
    \/ SeedQuery
    \/ SeedCommit
    \/ \E p \in Procs : RepositoryCreate(p)

SpecSeed == Init /\ [][SeedNext]_vars

(***************************************************************************)
(* SpecEntities: uploads together with the creation and deletion of        *)
(* entities.                                                               *)
(***************************************************************************)

\* the relationship without the cascade: the rows stay
cascade_delete_off(rows, entity_id) == rows

\* the relationship Entity.extracted_data has cascade "all, delete-orphan":
\* deleting the entity deletes the rows that reference it
cascade_delete(rows, entity_id) == {row \in rows : row.entity_id # entity_id}

\* create_entity: EntityRepository.create inserts a row with the next id
CreateEntity ==
    \E user \in Users :
        /\ NextId(entities) \in Entities
        /\ entities' = entities \cup {Entity(NextId(entities), user, "n")}
        /\ en_result' = [op |-> "create", entity_id |-> NextId(entities),
                         status |-> "201"]
        /\ UNCHANGED uploadVars
        /\ UNCHANGED <<mergeVars, fillVars, enrichVars, normVars, templateVars, tasks, moreVars>>

\* delete_entity: EntityRepository.delete removes the entity and, in the same
\* commit, what the cascade reaches; 404 when there is no such entity
DeleteEntity ==
    \E entity_id \in Entities :
        LET entity == {row \in entities : row.id = entity_id}
        IN /\ IF entity = {}
              THEN /\ en_result' = [op |-> "delete", entity_id |-> entity_id,
                                    status |-> "404"]
                   /\ UNCHANGED <<entities, extracted_data>>
              ELSE /\ entities' = entities \ entity
                   /\ extracted_data' = cascade_delete(extracted_data, entity_id)
                   /\ en_result' = [op |-> "delete", entity_id |-> entity_id,
                                    status |-> "204"]
           /\ UNCHANGED <<files, proc, nreq, overlap, seed>>
           /\ UNCHANGED <<mergeVars, fillVars, enrichVars, normVars, templateVars, tasks, moreVars>>

EntitiesNext ==
    \/ UploadStep
    \/ CreateEntity
    \/ DeleteEntity

SpecEntities == Init /\ [][EntitiesNext]_vars

(***************************************************************************)
(* SpecTasks: process_pdf_task, queued by reprocess_files for an uploaded  *)
(* file and an entity, together with the deletion of entities.             *)
(***************************************************************************)

\* max_retries of the task decorator
max_retries == 3

\* how one run of the task body ends: with success, or with the exception
\* raised when the file_uploads row is missing, when the download fails, when
\* the extraction does not succeed, when the metadata of the entity cannot
\* be updated or when the embedding cannot be stored
RunOutcomes == {"ok", "no file_upload", "download", "extraction", "metadata",
                "embedding"}

\* extraction_result.text and the metadata derived for a file
TextOf(f) == IF f = 1 THEN "text1" ELSE "text2"

MetadataOf(f) == IF f = 1 THEN "meta1" ELSE "meta2"

\* the retry test with the bound passed by one
should_retry_once_more(retries) == retries <= max_retries

\* if self.request.retries < self.max_retries
should_retry(retries) == retries < max_retries

\* reprocess_files: process_pdf_task.delay for a file and an entity
Delay ==
    \E f \in FileIds, entity \in entities :
        /\ tasks[f].state = "none"
        /\ tasks[f].file_status # "none"
        /\ tasks' = [tasks EXCEPT ![f] = [@ EXCEPT !.state = "queued",
                                                  !.entity_id = entity.id]]
        /\ UNCHANGED <<uploadVars, mergeVars, fillVars>>
        /\ UNCHANGED <<enrichVars, normVars, templateVars, entityVars, moreVars>>

\* process_pdf_task: one run of the task by a worker.  The run sets
\* entity.extracted_text and then the metadata before it stores the
\* embedding.  An exception marks the processing job failed and commits the
\* task's session, and with it what the run has set on the entity; while
\* retries < max_retries it queues the task again through self.retry,
\* otherwise the failure is returned.  Whether entity.metadata is the JSON
\* column depends on Base of src/core/database.py: on a declarative Base it
\* is the MetaData object, which has no update.
Run(f, outcome) ==
        LET t == tasks[f]
            extracted == outcome \in {"ok", "extraction", "metadata", "embedding"}
            found == \E row \in entities : row.id = t.entity_id
            failed == outcome # "ok" \/ ~found
            text_set == found /\ outcome \in {"ok", "metadata", "embedding"}
            metadata_set == found /\ outcome \in {"ok", "embedding"}
            ran == [t EXCEPT !.extractions = IF extracted THEN @ + 1 ELSE @,
                             !.job = IF outcome = "no file_upload" THEN @
                                     ELSE IF failed THEN "FAILED" ELSE "COMPLETED",
                             !.file_status = IF failed THEN @ ELSE "processed"]
        IN /\ t.state = "queued"
           /\ (outcome = "no file_upload") <=> (t.file_status = "none")
           /\ tasks' = [tasks EXCEPT ![f] =
                 IF ~failed
                 THEN [ran EXCEPT !.state = "returned", !.result = "success"]
                 ELSE IF should_retry(t.retries)
                 THEN [ran EXCEPT !.retries = @ + 1]
                 ELSE [ran EXCEPT !.state = "returned", !.result = "failure"]]
           /\ entity_rows' =
                 IF text_set
                 THEN [entity_rows EXCEPT ![t.entity_id] =
                          [extracted_text |-> TextOf(f),
                           metadata |-> IF metadata_set THEN MetadataOf(f)
                                        ELSE @.metadata]]
                 ELSE entity_rows
           /\ UNCHANGED <<uploadVars, mergeVars, fillVars>>
           /\ UNCHANGED <<enrichVars, normVars, templateVars, entityVars, notTasks>>

ProcessPdfTask == \E f \in FileIds, outcome \in RunOutcomes : Run(f, outcome)

\* delete_file: removes the file's processing jobs and its file_uploads row
DeleteFile ==
    \E f \in FileIds :
        /\ tasks[f].file_status = "uploaded"
        /\ tasks' = [tasks EXCEPT ![f] = [@ EXCEPT !.file_status = "none",
                                                  !.job = "none"]]
        /\ UNCHANGED <<uploadVars, mergeVars, fillVars>>
        /\ UNCHANGED <<enrichVars, normVars, templateVars, entityVars, moreVars>>

TasksNext ==
    \/ Delay
    \/ ProcessPdfTask
    \/ DeleteFile
    \/ DeleteEntity

SpecTasks == Init /\ [][TasksNext]_vars

\* the worker runs every queued task
SpecTasksLive ==
    /\ SpecTasks
    /\ \A f \in FileIds :
          WF_vars(\E outcome \in RunOutcomes : Run(f, outcome))

(***************************************************************************)
(* Properties of the upload pipeline.                                      *)
(***************************************************************************)
ExtractionErrors == {"ocr", "notext", "agent"}

\* the entity's record holds every field of data that carries a value
AlreadyMerged(rows, entity_id, data) ==
    \E r \in get_by_entity(rows, entity_id) :
        \A k \in DOMAIN data :
            ~IsAbsent(data[k]) =>
                k \in DOMAIN r.extracted_toon_object
                /\ ~IsAbsent(r.extracted_toon_object[k])

\* C1: merging a document whose content hash is already among the entity's
\* processed hashes changes nothing.  A request that reaches the duplicate
\* check with such a hash ends there and leaves the table as it was, and a
\* request that reaches the merge with such a hash and with fields the record
\* already holds leaves the table as it was.
C1_DuplicateMergeIsNoOp ==
    [][\A p \in Procs :
          /\ (/\ proc[p].pc = "dupcheck"
              /\ proc'[p] # proc[p]
              /\ is_file_processed(extracted_data, proc[p].entity, proc[p].file_hash))
             => (proc'[p].pc = "done" /\ extracted_data' = extracted_data)
          /\ (/\ proc[p].pc = "upsert"
              /\ proc'[p] # proc[p]
              /\ is_file_processed(extracted_data, proc[p].entity, proc[p].file_hash)
              /\ AlreadyMerged(extracted_data, proc[p].entity, proc[p].extracted))
             => extracted_data' = extracted_data]_vars

\* a request was skipped as a duplicate of a processed file
C1_Witness ==
    \E p \in Procs :
        /\ proc[p].pc = "done"
        /\ proc[p].response \in {"201 status=None", "return None"}
        /\ is_file_processed(extracted_data, proc[p].entity, proc[p].file_hash)

Succeeded(p) == proc[p].pc = "done" /\ proc[p].response = "201 status=1"

\* C2: two concurrent uploads for one entity whose extractions have disjoint
\* keys both succeed, and the entity's record then holds the fields of both
\* and the content hashes of both.
C2_ConcurrentUploadsBothMerge ==
    \A p, q \in Procs :
        (/\ p # q
         /\ overlap
         /\ proc[p].kind = "http" /\ proc[q].kind = "http"
         /\ proc[p].pc = "done" /\ proc[q].pc = "done"
         /\ proc[p].entity = proc[q].entity
         /\ proc[p].content # proc[q].content
         /\ proc[p].err \notin ExtractionErrors
         /\ proc[q].err \notin ExtractionErrors
         /\ DOMAIN proc[p].extracted \cap DOMAIN proc[q].extracted = {})
        => /\ Succeeded(p) /\ Succeeded(q)
           /\ \E r \in get_by_entity(extracted_data, proc[p].entity) :
                 /\ {sha256(proc[p].content), sha256(proc[q].content)}
                        \subseteq Range(r.processed_file_hashes)
                 /\ \A k \in DOMAIN proc[p].extracted \cup DOMAIN proc[q].extracted :
                        k \in DOMAIN r.extracted_toon_object

\* the response is a success that flags the upload as a duplicate
DuplicateSuccess(response) == response = "201 status=duplicate"

\* C6: an upload of a document that is already merged into the entity's
\* record is answered with a success that carries a duplicate flag, not with
\* an error.
C6_DuplicateUploadIsSuccess ==
    [][\A p \in Procs :
          (/\ proc[p].kind = "http"
           /\ proc[p].pc \in {"check", "dupcheck"}
           /\ proc'[p].pc = "done"
           /\ is_file_processed(extracted_data, proc[p].entity, sha256(proc[p].content)))
          => DuplicateSuccess(proc'[p].response)]_vars

\* C7: there is at most one extracted_data row per entity.
C7_OneRecordPerEntity ==
    \A e \in Entities : Cardinality(get_by_entity(extracted_data, e)) <= 1

\* two overlapping first uploads for one entity were both merged
C7_Witness ==
    /\ overlap
    /\ \E e \in Entities :
          /\ \A p \in Procs : Succeeded(p) /\ proc[p].entity = e
          /\ Cardinality(get_by_entity(extracted_data, e)) = 1
          /\ \A r \in get_by_entity(extracted_data, e) : r.id = 1

\* C8: when text extraction raises or yields no text, or the agent call
\* fails, the request ends without a write: the table, and with it the
\* entity's fields and processed hashes, is what it was, so the file is not
\* taken for a duplicate afterwards.
C8_FailedExtractionWritesNothing ==
    [][\A p \in Procs :
          (/\ proc[p].pc \in {"extract", "agent"}
           /\ proc'[p].pc = "done"
           /\ proc'[p].err \in ExtractionErrors)
          => /\ extracted_data' = extracted_data
             /\ is_file_processed(extracted_data', proc[p].entity, proc[p].file_hash)
                  = is_file_processed(extracted_data, proc[p].entity, proc[p].file_hash)]_vars

\* an upload failed in extraction and the same file, submitted again later,
\* was merged as new data
C8_Witness ==
    /\ ~overlap
    /\ \E p, q \in Procs :
          /\ proc[p].kind = "http" /\ proc[p].pc = "done"
          /\ proc[p].err \in ExtractionErrors
          /\ Succeeded(q)
          /\ proc[q].entity = proc[p].entity
          /\ proc[q].file_hash = proc[p].file_hash
          /\ is_file_processed(extracted_data, proc[q].entity, proc[q].file_hash)

(***************************************************************************)
(* Properties of the merge policies.                                       *)
(***************************************************************************)
FieldMerges == {"deep_merge", "update", "merge_fields"}

\* the test of deep_merge for a value that takes precedence
TakesPrecedence(v) == Truthy(v) /\ v \notin {"N/A", "\"\""}

C4_NoSentinelInRecord ==
    m_op \in {"deep_merge", "merge_fields", "parse_toon_data"} =>
        /\ \A k \in DOMAIN m_rec : ~IsAbsent(m_rec[k])
        /\ m_op # "parse_toon_data" =>
              \A k \in DOMAIN m_new :
                  IsAbsent(m_new[k]) =>
                      IF k \in DOMAIN m_prev THEN m_rec[k] = m_prev[k]
                      ELSE k \notin DOMAIN m_rec

\* C5: after a merge every key that was missing and has a value in the new
\* extraction is present with that value, every key present before is still
\* present, and the key set is the union of the old keys and the new keys
\* that have a value.
C5_GapFilling ==
    m_op \in {"deep_merge", "merge_fields"} =>
        /\ \A k \in DOMAIN m_new \ DOMAIN m_prev :
              ~IsAbsent(m_new[k]) => (k \in DOMAIN m_rec /\ m_rec[k] = m_new[k])
        /\ DOMAIN m_prev \subseteq DOMAIN m_rec
        /\ DOMAIN m_rec =
              DOMAIN m_prev \cup {k \in DOMAIN m_new : ~IsAbsent(m_new[k])}

(***************************************************************************)
(* Properties of form fill.                                                *)
(***************************************************************************)

\* what the filled output shows for an element
Shown(el) == IF el.tag = "select" THEN el.selected ELSE {el.value}

ElementsOf(elements, field_name) ==
    {elements[i] : i \in {j \in DOMAIN elements :
        field_name = (IF elements[j].name # NULL THEN elements[j].name
                      ELSE elements[j].id)}}

\* C9: for every template field, what form fill writes to the output is
\* empty unless it is a value of the entity's record; a field for which the
\* record has no value is written empty whatever the mapper returned.
C9_NoFabrication ==
    f_result.status = "200" =>
        \A i \in DOMAIN f_result.filled_html :
            Shown(f_result.filled_html[i]) \subseteq
                Shown(f_template.elements[i]) \cup {"", NULL}
                    \cup Range(f_result.entity_data)

\* C10: a value mapped to a field with declared options that is not one of
\* the options leaves the field unresolved: there is a validation warning,
\* and the value is neither in the rendered output nor in the returned
\* filled data.
C10_OptionConstraint ==
    f_result.status = "200" =>
        \A f \in DOMAIN f_template.form_fields \cap DOMAIN f_result.agent_response :
            LET info == f_template.form_fields[f]
                value == f_result.agent_response[f]
            IN (/\ info.options # << >>
                /\ Truthy(value)
                /\ value \notin Range(info.options))
               => /\ <<info.label, "invalid option">> \in f_result.validation_warnings
                  /\ \A el \in ElementsOf(f_result.filled_html, f) :
                        value \notin Shown(el)
                  /\ (f \in DOMAIN f_result.filled_data
                        => f_result.filled_data[f] # value)

\* C11: when form fill maps a malformed email to an email field or a
\* non-numeric value to a number field, the request still succeeds with a
\* warning for the field, and the field's element in the rendered output is
\* blank.
C11_InvalidFormatLeftBlank ==
    f_result.status = "200" =>
        \A f \in DOMAIN f_template.form_fields \cap DOMAIN f_result.agent_response :
            LET info == f_template.form_fields[f]
                value == f_result.agent_response[f]
            IN (/\ Truthy(value)
                /\ \/ info.type = "email" /\ ~MatchesEmail(value)
                   \/ info.type = "number" /\ ~IsNumber(value))
               => /\ \E w \in f_result.validation_warnings : w[1] = info.label
                  /\ \A el \in ElementsOf(f_result.filled_html, f) :
                        Shown(el) \subseteq {"", NULL}

\* C12: a form fill or preview request, successful or failed, and whatever
\* field names the mapper returned, leaves every extracted_data row (fields,
\* processed hashes, status) as it was before the request.
C12_FillLeavesRecordUnchanged ==
    [][f_result'.endpoint # "none" => extracted_data' = extracted_data]_vars

\* a fill answered with a field name unknown to the template, for an entity
\* that has a record
C12_Witness ==
    /\ f_result.status = "200"
    /\ "bogus" \in DOMAIN f_result.agent_response
    /\ Truthy(f_result.agent_response["bogus"])
    /\ f_result.entity_data # EmptyDict
    /\ extracted_data # {}

\* C17: an element is rendered exactly as in the template (value, checked
\* state, selected option) when the mapper's answer has neither its name nor
\* its id, or has null for it, or has for it a value that is none of the
\* element's declared options.
C17_UnresolvedKeepsDefault ==
    f_result.status = "200" =>
        \A i \in DOMAIN f_template.elements :
            LET el == f_template.elements[i]
                form_data == f_result.agent_response
                keys == {el.name, el.id} \cap DOMAIN form_data
                unresolved ==
                    \/ keys = {}
                    \/ \A k \in keys :
                          \/ form_data[k] = NULL
                          \/ /\ el.tag = "select"
                             /\ form_data[k] \notin Range(el.options)
            IN unresolved => f_result.filled_html[i] = el

(***************************************************************************)
(* Properties of enrichment.                                               *)
(***************************************************************************)

\* the date-of-birth field enrichment looks at first: the first of dob_keys
\* that the dictionary holds with a non-empty value; 0 when there is none
FirstDob(data) ==
    LET held == {i \in DOMAIN dob_keys :
                    dob_keys[i] \in DOMAIN data /\ Truthy(data[dob_keys[i]])}
    IN IF held = {} THEN 0 ELSE CHOOSE i \in held : \A j \in held : i <= j

NoAgeField(data) == \A i \in DOMAIN age_keys : age_keys[i] \notin DOMAIN data

\* Y - y, minus one when (M, D) precedes (m, d)
YearsBetween(date, today) ==
    today.year - date.year
      - (IF \/ today.month < date.month
            \/ (today.month = date.month /\ today.day < date.day)
         THEN 1 ELSE 0)

\* C13: when the dictionary has no age field and its date of birth parses to
\* (y, m, d), enrichment on the date (Y, M, D) stores under age the string of
\* Y - y, minus one when (M, D) precedes (m, d); 1990-06-15 on 2025-01-01
\* gives "34".
C13_AgeDerivation ==
    (e_op = "enrich" /\ NoAgeField(e_data) /\ FirstDob(e_data) # 0) =>
        LET date == strptime_any(Strip(e_data[dob_keys[FirstDob(e_data)]]))
            years == YearsBetween(date, e_today)
        IN date # NoDate =>
              /\ "age" \in DOMAIN e_out
              /\ years >= 0 => e_out["age"] = AgeStr(years)

\* C13, amended: the same for a date of birth that is not later than the
\* current date; a later date of birth derives no age, and when it is the
\* only date of birth the dictionary is left without an age.
C13_AgeDerivationOfPastDates ==
    (e_op = "enrich" /\ NoAgeField(e_data) /\ FirstDob(e_data) # 0) =>
        LET date == strptime_any(Strip(e_data[dob_keys[FirstDob(e_data)]]))
            years == YearsBetween(date, e_today)
            only == \A i \in DOMAIN dob_keys :
                        i # FirstDob(e_data) => dob_keys[i] \notin DOMAIN e_data
        IN date # NoDate =>
              /\ years >= 0 => ("age" \in DOMAIN e_out /\ e_out["age"] = AgeStr(years))
              /\ (years < 0 /\ only) => e_out = e_data
              /\ (/\ e_today = [year |-> 2025, month |-> 1, day |-> 1]
                  /\ e_data[dob_keys[FirstDob(e_data)]] = "1990-06-15")
                 => e_out["age"] = "34"

\* date_of_birth 1990-06-15 enriched on 2025-01-01, before the birthday
C13_Witness ==
    /\ e_op = "enrich"
    /\ e_today = [year |-> 2025, month |-> 1, day |-> 1]
    /\ "date_of_birth" \in DOMAIN e_data
    /\ e_data["date_of_birth"] = "1990-06-15"
    /\ "age" \in DOMAIN e_out
    /\ e_out["age"] = "34"

\* C14: when no date of birth of the dictionary parses as a date in one of
\* the supported formats, enrichment returns the dictionary as it was, with
\* no age.
C14_UnparseableLeavesAgeUnset ==
    (/\ e_op = "enrich"
     /\ NoAgeField(e_data)
     /\ \A i \in DOMAIN dob_keys :
           (dob_keys[i] \in DOMAIN e_data /\ Truthy(e_data[dob_keys[i]]))
               => strptime_any(Strip(e_data[dob_keys[i]])) = NoDate)
    => /\ "age" \notin DOMAIN e_out
       /\ e_out = e_data

(***************************************************************************)
(* Properties of the field classification.                                 *)
(***************************************************************************)

SpecificTypes == {"father_name", "mother_name", "spouse_name", "guardian_name",
                  "bank_name", "branch_name"}

\* C15: no rule is preceded by a more general rule whose pattern occurs
\* inside its own, and a field named father_name, mother_name, spouse_name,
\* guardian_name, bank_name or branch_name gets the semantic type of that
\* name and not person_name.
C15_SpecificBeforeGeneral ==
    n_out # NoInfo =>
        /\ \A i, j \in DOMAIN SEMANTIC_FIELD_MAP :
              i < j => \A a \in SEMANTIC_FIELD_MAP[i].pattern,
                          b \in SEMANTIC_FIELD_MAP[j].pattern : ~Contains(b, a)
        /\ (n_name \in SpecificTypes /\ n_label = "")
              => n_out.semantic_type = n_name

\* lower case with blanks and hyphens replaced by underscores
RECURSIVE SnakeFrom(_, _)
SnakeFrom(v, i) ==
    IF i > Len(v) THEN ""
    ELSE (IF SubSeq(v, i, i) \in {" ", "-"} THEN "_" ELSE LowerChar(SubSeq(v, i, i)))
            \o SnakeFrom(v, i + 1)

NoRuleMatches(field_name, label) ==
    \A i \in DOMAIN SEMANTIC_FIELD_MAP :
        \A lit \in SEMANTIC_FIELD_MAP[i].pattern :
            ~Contains(Lower(field_name \o " " \o label), lit)

\* C16: the classification always returns a result, and for a field no rule
\* matches the result's semantic key is the field name in lower case with
\* underscores between its words.
C16_TotalWithSnakeCaseFallback ==
    n_out # NoInfo =>
        /\ n_out.semantic_type # ""
        /\ NoRuleMatches(n_name, n_label) =>
              \/ n_out.semantic_type = SnakeFrom(n_name, 1)
              \/ n_out.likely_keys = <<SnakeFrom(n_name, 1)>>

(***************************************************************************)
(* Properties of template upload.                                          *)
(***************************************************************************)

\* the templates of a user whose stored file has the content
TemplatesOf(user, content) ==
    {row \in templates :
        /\ row.user_id = user
        /\ row.template_path \in DOMAIN t_files
        /\ t_files[row.template_path] = content}

C20_NoAutomaticRetry ==
    \A f \in FileIds :
        /\ tasks[f].extractions <= 1
        /\ tasks[f].retries = 0
        /\ tasks[f].job = "FAILED" =>
              (tasks[f].state = "returned" /\ tasks[f].result = "failure")

(***************************************************************************)
(* The request rate limiter (api/v1/middleware/rate_limiter.py).  One      *)
(* RateLimiter serves the rate_limit decorators and the global middleware. *)
(* The limiter reads a stored timestamp ts only through time.time() - ts   *)
(* and a lockout time only through lockout_until - time.time(), so the     *)
(* state keeps these distances: the age of an entry and the time left of   *)
(* a lockout.  An age stops growing at MaxWindow, from where no call       *)
(* counts the entry, and the time left stops falling at 0.                 *)
(***************************************************************************)
\* the largest window_seconds a caller passes
MaxWindow == 2
\* the largest max_requests a caller passes
MaxQuota == 2
\* the largest lockout_seconds passed to apply_lockout
MaxLockoutSeconds == 2
\* apply_lockout calls in a behaviour
MaxLockouts == 2

Min(a, b) == IF a < b THEN a ELSE b

RECURSIVE SelectAges(_, _)
\* the entries of a list younger than the limit, in order
SelectAges(requests, limit) ==
    IF requests = << >> THEN << >>
    ELSE IF Head(requests)[1] < limit
         THEN <<Head(requests)>> \o SelectAges(Tail(requests), limit)
         ELSE SelectAges(Tail(requests), limit)

\* RateLimiter._clean_old_requests: keeps ts > time.time() - window_seconds
clean_old_requests(st, identifier, window_seconds) ==
    [st EXCEPT ![identifier] = SelectAges(@, window_seconds)]

RECURSIVE request_count(_)
\* sum(count for _, count in self._storage[identifier])
request_count(requests) ==
    IF requests = << >> THEN 0
    ELSE Head(requests)[2] + request_count(Tail(requests))

\* del self._lock_storage[identifier]
DelKey(d, k) == [i \in DOMAIN d \ {k} |-> d[i]]

\* is_rate_limited without the branch that ends an expired lockout
is_rate_limited_no_expiry(st, lk, identifier, max_requests, window_seconds) ==
    IF identifier \in DOMAIN lk
    THEN [storage |-> st, lock_storage |-> lk, limited |-> TRUE,
          reason |-> "temporary_lockout"]
    ELSE LET cleaned == clean_old_requests(st, identifier, window_seconds)
         IN  IF request_count(cleaned[identifier]) >= max_requests
             THEN [storage |-> cleaned, lock_storage |-> lk,
                   limited |-> TRUE, reason |-> NULL]
             ELSE [storage |-> [cleaned EXCEPT
                                   ![identifier] = Append(@, <<0, 1>>)],
                   lock_storage |-> lk,
                   limited |-> FALSE, reason |-> NULL]

\* RateLimiter.is_rate_limited: the storage and lockouts it leaves and the
\* answer (is_limited, info.get("reason"))
is_rate_limited(st, lk, identifier, max_requests, window_seconds) ==
    IF identifier \in DOMAIN lk /\ 0 < lk[identifier]
    THEN [storage |-> st, lock_storage |-> lk, limited |-> TRUE,
          reason |-> "temporary_lockout"]
    ELSE LET unlocked == DelKey(lk, identifier)
             cleaned == clean_old_requests(st, identifier, window_seconds)
         IN  IF request_count(cleaned[identifier]) >= max_requests
             THEN [storage |-> cleaned, lock_storage |-> unlocked,
                   limited |-> TRUE, reason |-> NULL]
             ELSE [storage |-> [cleaned EXCEPT
                                   ![identifier] = Append(@, <<0, 1>>)],
                   lock_storage |-> unlocked,
                   limited |-> FALSE, reason |-> NULL]

\* a call of the limiter by a decorator or by the middleware
Call(identifier, max_requests, window_seconds) ==
        LET r == is_rate_limited(storage, lock_storage, identifier,
                                 max_requests, window_seconds)
        IN  /\ storage' = r.storage
            /\ lock_storage' = r.lock_storage
            /\ r_log' = IF r.limited THEN r_log
                        ELSE [r_log EXCEPT ![identifier] = Append(@, <<0, 1>>)]
            /\ r_last' = [op |-> "is_rate_limited", identifier |-> identifier,
                          max_requests |-> max_requests,
                          window_seconds |-> window_seconds,
                          limited |-> r.limited, reason |-> r.reason,
                          unlocked |-> identifier \in DOMAIN lock_storage
                                        \ DOMAIN r.lock_storage]
            /\ UNCHANGED r_lockouts
            /\ UNCHANGED <<uploadVars, mergeVars, fillVars>>
            /\ UNCHANGED <<enrichVars, normVars, templateVars, entityVars, tasks>>
            /\ UNCHANGED notRate

IsRateLimited ==
    \E identifier \in Identifiers, max_requests \in 1..MaxQuota,
       window_seconds \in 1..MaxWindow :
        Call(identifier, max_requests, window_seconds)

\* RateLimiter.apply_lockout
ApplyLockout ==
    \E identifier \in Identifiers, lockout_seconds \in 1..MaxLockoutSeconds :
        /\ r_lockouts < MaxLockouts
        /\ r_lockouts' = r_lockouts + 1
        /\ lock_storage' = [i \in DOMAIN lock_storage \cup {identifier} |->
                               IF i = identifier THEN lockout_seconds
                               ELSE lock_storage[i]]
        /\ r_last' = [NoCall EXCEPT !.op = "apply_lockout",
                                    !.identifier = identifier]
        /\ UNCHANGED <<storage, r_log>>
        /\ UNCHANGED <<uploadVars, mergeVars, fillVars>>
        /\ UNCHANGED <<enrichVars, normVars, templateVars, entityVars, tasks>>
        /\ UNCHANGED notRate

\* RateLimiter.reset_limit; the identifier's history starts afresh
ResetLimit ==
    \E identifier \in Identifiers :
        /\ storage' = [storage EXCEPT ![identifier] = << >>]
        /\ lock_storage' = DelKey(lock_storage, identifier)
        /\ r_log' = [r_log EXCEPT ![identifier] = << >>]
        /\ r_last' = [NoCall EXCEPT !.op = "reset_limit",
                                    !.identifier = identifier]
        /\ UNCHANGED r_lockouts
        /\ UNCHANGED <<uploadVars, mergeVars, fillVars>>
        /\ UNCHANGED <<enrichVars, normVars, templateVars, entityVars, tasks>>
        /\ UNCHANGED notRate

\* the entries of a list one second later
Older(requests) ==
    [n \in 1..Len(requests) |->
        <<Min(requests[n][1] + 1, MaxWindow), requests[n][2]>>]

\* time.time() advances by a second
Tick ==
    /\ storage' = [i \in Identifiers |-> Older(storage[i])]
    /\ lock_storage' = [i \in DOMAIN lock_storage |->
                           IF lock_storage[i] > 0 THEN lock_storage[i] - 1
                           ELSE 0]
    /\ r_log' = [i \in Identifiers |-> SelectAges(Older(r_log[i]), MaxWindow)]
    /\ UNCHANGED <<r_last, r_lockouts>>
    /\ UNCHANGED <<uploadVars, mergeVars, fillVars>>
    /\ UNCHANGED <<enrichVars, normVars, templateVars, entityVars, tasks>>
    /\ UNCHANGED notRate

RateNext ==
    \/ IsRateLimited
    \/ ApplyLockout
    \/ ResetLimit
    \/ Tick

SpecRateLimit == Init /\ [][RateNext]_vars

\* calls keep arriving and time keeps passing
SpecRateLimitLive ==
    /\ SpecRateLimit
    /\ WF_vars(Tick)
    /\ \A i \in Identifiers :
          WF_vars(\E m \in 1..MaxQuota, w \in 1..MaxWindow : Call(i, m, w))

\* the number of calls in a list admitted less than window_seconds ago
AdmittedWithin(requests, window_seconds) ==
    request_count(SelectAges(requests, window_seconds))

\* the step is a call for identifier i that the limiter admits
Admits(i) ==
    /\ r_last'.op = "is_rate_limited"
    /\ r_last'.identifier = i
    /\ ~r_last'.limited
    /\ Len(r_log'[i]) = Len(r_log[i]) + 1

\* C21: a call is_rate_limited(id, max_requests, window_seconds) is admitted
\* only if fewer than max_requests calls for id were admitted in the
\* preceding window_seconds, whatever windows the earlier calls used
C21_AdmittedOnlyBelowLimit ==
    [][\A i \in Identifiers :
          Admits(i) =>
              AdmittedWithin(r_log[i], r_last'.window_seconds)
                  < r_last'.max_requests]_vars

\* the lockout of identifier i has not passed yet
LockedOut(i) == i \in DOMAIN lock_storage /\ 0 < lock_storage[i]

\* the last limiter call was for identifier i and was admitted
AdmittedCall(i) ==
    /\ r_last.op = "is_rate_limited"
    /\ r_last.identifier = i
    /\ ~r_last.limited

\* a call made during the lockout is rejected as temporary_lockout and
\* changes nothing; a call made after it ends the lockout and is rejected
\* exactly when the window is full
LockoutRejects ==
    \A i \in Identifiers, m \in 1..MaxQuota, w \in 1..MaxWindow :
        LET r == is_rate_limited(storage, lock_storage, i, m, w)
        IN  /\ LockedOut(i) =>
                /\ r.limited
                /\ r.reason = "temporary_lockout"
                /\ r.storage = storage
                /\ r.lock_storage = lock_storage
            /\ (i \in DOMAIN lock_storage /\ ~LockedOut(i)) =>
                /\ i \notin DOMAIN r.lock_storage
                /\ r.reason # "temporary_lockout"
                /\ r.limited = (AdmittedWithin(storage[i], w) >= m)

\* C22: after apply_lockout(id, s) every call for id before the lockout
\* time has passed is rejected with reason temporary_lockout and records no
\* request; the first call after it removes the lockout and is evaluated
\* against the normal window, and the client is eventually admitted again
C22_LockoutEnds ==
    /\ [](LockoutRejects)
    /\ \A i \in Identifiers : (i \in DOMAIN lock_storage) ~> AdmittedCall(i)

\* C22 witness: a call found the lockout of its identifier passed, removed
\* it and was admitted
C22_Witness ==
    /\ r_last.op = "is_rate_limited"
    /\ r_last.unlocked
    /\ ~r_last.limited
    /\ r_last.identifier \notin DOMAIN lock_storage
    /\ r_lockouts > 0

(***************************************************************************)
(* Properties of process_pdf_task.                                         *)
(***************************************************************************)
\* the task of file f has ended for good: it returned and was not queued again
Ended(f) == tasks[f].state = "returned"

FailedRun(f) ==
    /\ tasks[f].state = "queued"
    /\ tasks'[f] # tasks[f]
    /\ tasks'[f].job = "FAILED"
    /\ \/ tasks'[f].retries = tasks[f].retries + 1
       \/ tasks'[f].result = "failure"

\* C27: an execution of process_pdf_task that fails leaves the persisted
\* extracted_text and metadata of the entity as they were; it changes only
\* the status and the error message of the job
C27_FailureKeepsEntity ==
    [][\A f \in FileIds : FailedRun(f) => entity_rows' = entity_rows]_vars

\* values of the enum FileStatus
FileStatus == {"uploaded", "processing", "completed", "failed"}

MaxRows == 3

\* a row of the old schema
OldRow(id, user_id, entity_id, status, file_hash, extracted_toon_object) ==
    [id |-> id, user_id |-> user_id, entity_id |-> entity_id, status |-> status,
     file_hash |-> file_hash, extracted_toon_object |-> extracted_toon_object]

\* a row of the new schema
NewRow(id, user_id, entity_id, status, processed_file_hashes, extracted_toon_object) ==
    [id |-> id, user_id |-> user_id, entity_id |-> entity_id, status |-> status,
     processed_file_hashes |-> processed_file_hashes,
     extracted_toon_object |-> extracted_toon_object]

MigrationData == {EmptyDict, [k \in {"name"} |-> "A"]}

\* what the rows of the old table hold besides their id
RowShapes ==
    [entity_id : {1, 2}, status : {0, 1}, file_hash : {NULL, "h1", "h2"},
     extracted_toon_object : MigrationData]

\* an old table: the rows 1..n with the shapes f, several rows for an entity
OldTable(n, f) ==
    {OldRow(i, 1, f[i].entity_id, f[i].status, f[i].file_hash,
            f[i].extracted_toon_object) : i \in 1..n}

RECURSIVE OrderById(_)
\* ORDER BY id
OrderById(rows) ==
    IF rows = {} THEN << >>
    ELSE LET first == CHOOSE r \in rows : \A q \in rows : r.id <= q.id
         IN  <<first>> \o OrderById(rows \ {first})

\* entity_groups[entity_id]: the rows of an entity in the order of the query
Group(rows, entity_id) == OrderById({r \in rows : r.entity_id = entity_id})

RECURSIVE MergedData(_)
\* merged_data after the loop over the records of an entity
MergedData(records) ==
    IF records = << >> THEN EmptyDict
    ELSE LET last == records[Len(records)]
             before == MergedData(SubSeq(records, 1, Len(records) - 1))
         IN  IF last.extracted_toon_object # EmptyDict
             THEN deep_merge(before, last.extracted_toon_object)
             ELSE before

\* best_status after the loop
BestStatus(records) ==
    IF \E i \in DOMAIN records : records[i].status = 1 THEN 1 ELSE 0

\* consolidate_extracted_data: for an entity with several rows, the rows
\* after the first are deleted and the first gets the merged data and the
\* best status; its file_hash stays what it was
consolidate_extracted_data(rows) ==
    {IF Len(Group(rows, r.entity_id)) > 1
     THEN [r EXCEPT !.extracted_toon_object = MergedData(Group(rows, r.entity_id)),
                    !.status = BestStatus(Group(rows, r.entity_id))]
     ELSE r :
        r \in {q \in rows : q = Group(rows, q.entity_id)[1]}}

Consolidate ==
    /\ mg_op = "init"
    /\ mg_rows' = consolidate_extracted_data(mg_rows)
    /\ mg_op' = "consolidated"
    /\ UNCHANGED <<mg_old, mg_new>>
    /\ UNCHANGED <<uploadVars, mergeVars, fillVars>>
    /\ UNCHANGED <<enrichVars, normVars, templateVars, entityVars, tasks>>
    /\ UNCHANGED notMig

\* the SQL the script prints: processed_file_hashes is added with default
\* '[]' and set to JSON_ARRAY(file_hash) where file_hash is not null, then
\* file_hash is dropped
schema_sql(rows) ==
    {NewRow(r.id, r.user_id, r.entity_id, r.status,
            IF r.file_hash # NULL THEN <<r.file_hash>> ELSE << >>,
            r.extracted_toon_object) : r \in rows}

SchemaSql ==
    /\ mg_op = "consolidated"
    /\ mg_new' = schema_sql(mg_rows)
    /\ mg_rows' = {}
    /\ mg_op' = "schema"
    /\ UNCHANGED mg_old
    /\ UNCHANGED <<uploadVars, mergeVars, fillVars>>
    /\ UNCHANGED <<enrichVars, normVars, templateVars, entityVars, tasks>>
    /\ UNCHANGED notMig

RECURSIVE UpdatedData(_)
\* the dictionary of an entity after current_data.update over its rows
UpdatedData(records) ==
    IF records = << >> THEN EmptyDict
    ELSE dict_update(UpdatedData(SubSeq(records, 1, Len(records) - 1)),
                     records[Len(records)].extracted_toon_object)

\* migrate of migrate_extracted_data_fix.py: one new row per entity with the
\* id, user and status of its first row, the file_hash of every row and the
\* updated dictionary
migrate(rows) ==
    {NewRow(r.id, r.user_id, r.entity_id, r.status,
            [i \in 1..Len(Group(rows, r.entity_id)) |->
                Group(rows, r.entity_id)[i].file_hash],
            UpdatedData(Group(rows, r.entity_id))) :
        r \in {q \in rows : q = Group(rows, q.entity_id)[1]}}

MigrateFix ==
    /\ mg_op = "init"
    /\ mg_new' = migrate(mg_rows)
    /\ mg_rows' = {}
    /\ mg_op' = "fix"
    /\ UNCHANGED mg_old
    /\ UNCHANGED <<uploadVars, mergeVars, fillVars>>
    /\ UNCHANGED <<enrichVars, normVars, templateVars, entityVars, tasks>>
    /\ UNCHANGED notMig

MigrateInit ==
    /\ UploadInit /\ MergeInit /\ FillIdle
    /\ EnrichIdle /\ NormIdle /\ TemplatesIdle /\ EntitiesIdle /\ TasksIdle
    /\ RateIdle /\ EntityRowsIdle /\ AccessIdle
    /\ \E n \in 0..MaxRows : \E f \in [1..n -> RowShapes] : mg_old = OldTable(n, f)
    /\ mg_rows = mg_old
    /\ mg_new = {}
    /\ mg_op = "init"

MigrateNext ==
    \/ Consolidate
    \/ SchemaSql
    \/ MigrateFix

SpecMigrate == MigrateInit /\ [][MigrateNext]_vars

\* the new table has exactly one row for every entity of the old table, and
\* that row lists the file hash of every old row of the entity
KeepsEveryHash ==
    \A e \in {r.entity_id : r \in mg_old} :
        /\ Cardinality({n \in mg_new : n.entity_id = e}) = 1
        /\ \A r \in mg_old, n \in mg_new :
              (r.entity_id = e /\ n.entity_id = e /\ r.file_hash # NULL) =>
                  r.file_hash \in Range(n.processed_file_hashes)

\* C24: after the consolidation migration and the schema SQL it prints, each
\* entity has one extracted_data row whose processed_file_hashes contains the
\* file hash of every row the entity had before the migration
C24_ConsolidationKeepsHashes == mg_op = "schema" => KeepsEveryHash

(***************************************************************************)
(* SpecAccess: the requests that name an entity, made by the owner of the  *)
(* entities of the model (user 1), by another user (user 2) or, where the  *)
(* handler has no get_current_user dependency, by anybody (caller 0).      *)
(***************************************************************************)
\* users with a valid token
AuthUsers == {1, 2}

\* who can reach a handler without the authentication dependency
Callers == {0} \cup AuthUsers

EntityNames == {"n", "m"}

\* the user_id of the entity's row; 0 when there is no such entity
OwnerOf(rows, entity_id) ==
    IF \E row \in rows : row.id = entity_id
    THEN (CHOOSE row \in rows : row.id = entity_id).user_id
    ELSE 0

Answer(op, caller, entity_id, status) ==
    [op |-> op, caller |-> caller, entity_id |-> entity_id,
     owner |-> OwnerOf(entities, entity_id), status |-> status]

\* get_entity: 404 without the entity, 403 for an entity of another user
GetEntity ==
    \E caller \in AuthUsers, entity_id \in Entities :
        /\ a_result' = Answer("get_entity", caller, entity_id,
                IF OwnerOf(entities, entity_id) = 0 THEN "404"
                ELSE IF OwnerOf(entities, entity_id) # caller THEN "403"
                ELSE "200")
        /\ UNCHANGED <<uploadVars, mergeVars, fillVars>>
        /\ UNCHANGED <<enrichVars, normVars, templateVars, entityVars, tasks>>
        /\ UNCHANGED notAccess

\* EntityRepository.update with a name
entity_update(rows, entity_id, name) ==
    {IF row.id = entity_id THEN [row EXCEPT !.name = name] ELSE row : row \in rows}

\* update_entity: no current user, no check of the owner
UpdateEntity ==
    \E caller \in Callers, entity_id \in Entities, name \in EntityNames :
        /\ entities' = entity_update(entities, entity_id, name)
        /\ a_result' = Answer("update_entity", caller, entity_id,
                IF OwnerOf(entities, entity_id) = 0 THEN "404" ELSE "200")
        /\ UNCHANGED en_result
        /\ UNCHANGED <<uploadVars, mergeVars, fillVars>>
        /\ UNCHANGED <<enrichVars, normVars, templateVars, tasks>>
        /\ UNCHANGED notAccess

\* delete_entity: no current user, no check of the owner
DeleteEntityBy ==
    \E caller \in Callers, entity_id \in Entities :
        /\ entities' = {row \in entities : row.id # entity_id}
        /\ extracted_data' =
              IF OwnerOf(entities, entity_id) = 0 THEN extracted_data
              ELSE cascade_delete(extracted_data, entity_id)
        /\ a_result' = Answer("delete_entity", caller, entity_id,
                IF OwnerOf(entities, entity_id) = 0 THEN "404" ELSE "204")
        /\ UNCHANGED en_result
        /\ UNCHANGED <<files, proc, nreq, overlap, seed>>
        /\ UNCHANGED <<mergeVars, fillVars>>
        /\ UNCHANGED <<enrichVars, normVars, templateVars, tasks>>
        /\ UNCHANGED notAccess

\* list_entity_data: no current user; the rows of the entity, if any
ListEntityData ==
    \E caller \in Callers, entity_id \in Entities :
        /\ a_result' = Answer("list_entity_data", caller, entity_id, "200")
        /\ UNCHANGED <<uploadVars, mergeVars, fillVars>>
        /\ UNCHANGED <<enrichVars, normVars, templateVars, entityVars, tasks>>
        /\ UNCHANGED notAccess

\* create_entity_data with a readable document: the entity is not looked up;
\* the extracted fields are merged into the record of entity_id
UploadDocument ==
    \E caller \in AuthUsers, entity_id \in Entities, doc \in Docs :
        /\ extracted_data' =
              IF is_file_processed(extracted_data, entity_id, sha256(doc))
              THEN extracted_data
              ELSE upsert_or_merge(extracted_data, caller, entity_id,
                                   sha256(doc), 1, [k \in {"name"} |-> doc])
        /\ a_result' = Answer("create_entity_data", caller, entity_id, "201")
        /\ UNCHANGED <<files, proc, nreq, overlap, seed>>
        /\ UNCHANGED <<mergeVars, fillVars>>
        /\ UNCHANGED <<enrichVars, normVars, templateVars, entityVars, tasks>>
        /\ UNCHANGED notAccess

\* form_fill with an existing HTML template: the record of entity_id is read
\* and mapped, whoever owns the entity
FormFillFor ==
    \E caller \in AuthUsers, entity_id \in Entities :
        /\ a_result' = Answer("form_fill", caller, entity_id, "200")
        /\ UNCHANGED <<uploadVars, mergeVars, fillVars>>
        /\ UNCHANGED <<enrichVars, normVars, templateVars, entityVars, tasks>>
        /\ UNCHANGED notAccess

AccessNext ==
    \/ GetEntity
    \/ UpdateEntity
    \/ DeleteEntityBy
    \/ ListEntityData
    \/ UploadDocument
    \/ FormFillFor

SpecAccess == Init /\ [][AccessNext]_vars

C26_UploadUsesOwnBytes ==
    \A p \in Procs :
        proc[p].kind = "http" =>
            /\ proc[p].file_hash # "none" =>
                  proc[p].file_hash = sha256(proc[p].content)
            /\ proc[p].text # "none" => proc[p].text = proc[p].content

(***************************************************************************)
(* SpecTemplateUpdate: template uploads and update_template.               *)
(***************************************************************************)
\* update_template: what the handler answers and leaves behind.  The new
\* file is written, and the old one removed, before the new HTML is parsed
\* and before the row is changed; filename NULL is a request without a file.
update_template(user, template_id, filename, content) ==
    LET found == {row \in templates : row.id = template_id /\ row.user_id = user}
        template == CHOOSE row \in found : TRUE
        new_file_hash == hexdigest(content)
        plain == <<user, filename, "">>
        new_file_path == IF plain \in DOMAIN t_files /\ plain # template.template_path
                         THEN <<user, filename, new_file_hash>> ELSE plain
        written == [q \in DOMAIN t_files \cup {new_file_path} |->
                       IF q = new_file_path THEN content ELSE t_files[q]]
        replaced == IF template.template_path # new_file_path
                    THEN [q \in DOMAIN written \ {template.template_path} |->
                             written[q]]
                    ELSE written
        updated == {IF row.id = template_id
                    THEN [row EXCEPT !.file_hash = new_file_hash,
                                     !.template_path = new_file_path]
                    ELSE row : row \in templates}
        response(status) ==
            [op |-> "update", user |-> user, filename |-> filename,
             content |-> content, status |-> status, template |-> template_id]
    IN IF found = {}
       THEN [rows |-> templates, stored |-> t_files, response |-> response("404")]
       ELSE IF filename = NULL
       THEN [rows |-> templates, stored |-> t_files, response |-> response("200")]
       ELSE IF ~IsHtmlName(filename)
       THEN [rows |-> templates, stored |-> t_files, response |-> response("400")]
       ELSE IF content = "bad"
       THEN [rows |-> templates, stored |-> replaced, response |-> response("400")]
       ELSE IF \E row \in templates : row.id # template_id
                                      /\ row.file_hash = new_file_hash
       THEN [rows |-> templates, stored |-> replaced, response |-> response("500")]
       ELSE [rows |-> updated, stored |-> replaced, response |-> response("200")]

\* PUT /templates
UpdateTemplate ==
    \E user \in TemplateUsers, template_id \in TemplateIds,
       filename \in TemplateFileNames \cup {NULL}, content \in Contents :
        /\ t_result = NoResponse
        /\ LET out == update_template(user, template_id, filename, content)
           IN /\ templates' = out.rows
              /\ t_files' = out.stored
              /\ t_result' = out.response
        /\ UNCHANGED <<uploadVars, mergeVars, fillVars, enrichVars, normVars, entityVars, tasks, moreVars>>

TemplateUpdateNext ==
    \/ CreateTemplate
    \/ UpdateTemplate
    \/ TemplateReturn

SpecTemplateUpdate == TemplatesInit /\ [][TemplateUpdateNext]_vars

\* C28: when update_template fails because the file type is unsupported or
\* the new HTML cannot be parsed, the row of the template, with the field
\* schema it holds, and the stored files are what they were before the call
C28_FailedUpdateChangesNothing ==
    [][(t_result'.op = "update" /\ t_result'.status = "400")
          => (templates' = templates /\ t_files' = t_files)]_vars

(***************************************************************************)
(* Properties of the validation of form_fill                               *)
(***************************************************************************)

\* the field is written to the output without a value
EndsUpEmpty(field_name) ==
    \A el \in ElementsOf(f_result.filled_html, field_name) :
        Shown(el) \subseteq {"", NULL}

\* C30: after a form fill, every required field of the template that ends
\* up with no value has an "is required" warning, also when the mapper's
\* response has no entry for the field
C30_RequiredFieldWarned ==
    f_result.status = "200" =>
        \A f \in DOMAIN f_template.form_fields :
            LET info == f_template.form_fields[f]
            IN (info.required /\ EndsUpEmpty(f))
                  => <<info.label, "is required">> \in f_result.validation_warnings

====
